---- MODULE Spec2Model ----
(***************************************************************************)
(* The scan queue of the recon extension: the zustand store of the popup   *)
(* (addScanToQueue, processQueue, skipCurrentScan, stopAllScans, ...),     *)
(* the runs of processQueue / performScan it starts, and the background    *)
(* worker's message handler with its map of AbortControllers.              *)
(*                                                                         *)
(* A hostname is the sequence of its labels (<<"x","a","com">> is          *)
(* x.a.com); the empty sequence is the empty string, and it also stands    *)
(* for null in currentlyScanningDomain (both are falsy in the code, and    *)
(* the empty root domain is never admitted to the queue).                  *)
(*                                                                         *)
(* The popup is the only sender of the messages modelled here and the      *)
(* background handles them one at a time in the order sent, so a message   *)
(* is handled in the step that sends it; what takes time is the answer: a  *)
(* fetch of checkUrl, the reply to START_SCAN_SESSION, the settings read.  *)
(***************************************************************************)
EXTENDS Naturals, Sequences, FiniteSets, TLC

\* Bounds of the model.
MaxAdmit == 2       \* admissions to the queue in one behaviour
WordlistLen == 1    \* entries of the wordlist (probes of one recon pass)

Null == <<>>

\* What the user types or a visited page gives: nothing, two root domains,
\* a subdomain of the first.
HostInputs == { <<>>, <<"a", "com">>, <<"b", "com">>, <<"x", "a", "com">> }

\* The domains the user puts on the ignore list.
IgnoreInputs == { <<"b", "com">> }

commonSLDs == {"co", "com", "org", "net", "gov", "edu", "io"}

LastLabels(parts, n) == SubSeq(parts, Len(parts) - n + 1, Len(parts))

\* The texts of the model, and what toLowerCase makes of them.
toLowerCase(s) ==
    CASE s = "Index of" -> "index of"
      [] s = "INDEX OF" -> "index of"
      [] s = "Not Found" -> "not found"
      [] s = "NOT FOUND" -> "not found"
      [] s = "WWW" -> "www"
      [] s = "Com" -> "com"
      [] s = "S" -> "s"
      [] OTHER -> s

\* The labels of the model that are decimal numbers.
NumericLabels == {"0", "1", "192"}

numberOf(label) ==
    CASE label = "0" -> 0
      [] label = "1" -> 1
      [] label = "192" -> 192

\* new URL(...) takes a host whose last label is a number for an IPv4
\* address: it throws unless the host has at most four labels, all numbers,
\* the last one fitting the bytes the others leave.
endsInNumber(parts) == parts[Len(parts)] \in NumericLabels

urlThrows(parts) ==
    /\ endsInNumber(parts)
    /\ \/ Len(parts) > 4
       \/ \E k \in 1..Len(parts) : parts[k] \notin NumericLabels
       \/ \E k \in 1..(Len(parts) - 1) : numberOf(parts[k]) > 255
       \/ /\ Len(parts) > 1     \* one number alone has all four bytes
          /\ numberOf(parts[Len(parts)]) >= 256 ^ (5 - Len(parts))

\* The four bytes of an IPv4 address written with n <= 4 numbers: the last
\* number fills the bytes the others leave.
ipv4(parts) ==
    LET n == Len(parts)
        last == numberOf(parts[n])
    IN [j \in 1..4 |->
          ToString(IF j < n THEN numberOf(parts[j])
                   ELSE (last \div (256 ^ (4 - j))) % 256)]

\* url.hostname.split('.') of a host: lower-cased, an IPv4 address in its
\* four decimal bytes.
hostname(parts) ==
    IF endsInNumber(parts) THEN ipv4(parts)
    ELSE [k \in 1..Len(parts) |-> toLowerCase(parts[k])]

\* A rule that keeps the last two labels whatever the second-to-last is.
lastTwoOfParts(parts) ==
    IF Len(parts) > 2 THEN LastLabels(parts, 2) ELSE parts

\* The root domain of the labels of a host name.
rootOfParts(parts) ==
    IF Len(parts) > 2
    THEN IF parts[Len(parts) - 1] \in commonSLDs
         THEN LastLabels(parts, 3)
         ELSE LastLabels(parts, 2)
    ELSE parts

\* The labels getRootDomain splits: the ones of url.hostname, or the ones of
\* the input when new URL throws.
splitParts(parts) == IF urlThrows(parts) THEN parts ELSE hostname(parts)

getRootDomain(parts) ==
    IF parts = <<>> THEN <<>>
    ELSE rootOfParts(splitParts(parts))

Roots == { getRootDomain(h) : h \in HostInputs } \ {Null}

Tickets == 1..MaxAdmit

VARIABLES
    scanQueue,                \* store: string[]
    isProcessingQueue,        \* store: boolean
    currentlyScanningDomain,  \* store: string | null
    history,                  \* store: HistoryItem[], newest first
    ignoredDomains,           \* store: string[] (kept duplicate-free by the code)
    initialQueueLength,       \* store: number
    activeScans,              \* background: root domain -> AbortController (0: none)
    aborted,                  \* the AbortControllers whose signal is aborted
    runs,                     \* the processQueue runs, one per admission
    queueTickets,             \* the admission number of each scanQueue entry
    nextTicket,               \* the next admission number
    stoppedTickets,           \* admissions that stopAllScans removed
    currentRun,               \* the run that set currentlyScanningDomain (0: none)
    observed,                 \* whether lastOp is recorded (it never changes)
    lastOp,                   \* the operation that made the last step: its
                              \* argument, its run, the toast it showed and
                              \* the messages it sent to the background
    calc                      \* a call of one of the scanner's functions on its
                              \* own: its inputs, how far it is, its outcome

storeVars == <<scanQueue, isProcessingQueue, currentlyScanningDomain, history,
               ignoredDomains, initialQueueLength>>

vars == <<scanQueue, isProcessingQueue, currentlyScanningDomain, history,
          ignoredDomains, initialQueueLength, activeScans, aborted, runs,
          queueTickets, nextTicket, stoppedTickets, currentRun, observed, lastOp,
          calc>>

\* The variables of the queue and the background: all but calc.
queueVars == <<scanQueue, isProcessingQueue, currentlyScanningDomain, history,
               ignoredDomains, initialQueueLength, activeScans, aborted, runs,
               queueTickets, nextTicket, stoppedTickets, currentRun, observed,
               lastOp>>

\* A run: where it is (pc), its domainToScan, the wordlist entry it is at, the
\* AbortController of its fetch under way, and (for the claims) whether it was
\* the current run when a skip or stop-all cancelled it, and whether a
\* stopAllScans happened while it was under way.
NoRun == [pc |-> "none", dom |-> Null, probe |-> 0, ctl |-> 0,
          cancelled |-> FALSE, stopped |-> FALSE]

Op(name, arg, run, toast, sent) ==
    [op |-> name, arg |-> arg, run |-> run, toast |-> toast, sent |-> sent]

\* No function of the scanner is followed on its own while the queue runs.
NoCalc == [fn |-> "none"]

\* Every operation of the queue is recorded in lastOp; it leaves calc alone.
Record(name, arg, run, toast, sent) ==
    /\ lastOp' = IF observed THEN Op(name, arg, run, toast, sent) ELSE lastOp
    /\ observed' = observed
    /\ calc' = calc

InitStore ==
    /\ scanQueue = <<>>
    /\ isProcessingQueue = FALSE
    /\ currentlyScanningDomain = Null
    /\ history = <<>>
    /\ ignoredDomains = {}
    /\ initialQueueLength = 0
    /\ activeScans = [d \in Roots |-> 0]
    /\ aborted = {}
    /\ runs = [t \in Tickets |-> NoRun]
    /\ queueTickets = <<>>
    /\ nextTicket = 1
    /\ stoppedTickets = {}
    /\ currentRun = 0
    /\ lastOp = Op("init", Null, 0, "", <<>>)

Init == InitStore /\ observed = FALSE /\ calc = NoCalc

InitObserved == InitStore /\ observed = TRUE /\ calc = NoCalc

(***************************************************************************)
(* Helpers                                                                 *)
(***************************************************************************)
includes(seq, x) == \E i \in 1..Len(seq) : seq[i] = x

slice1(seq) == IF seq = <<>> THEN <<>> ELSE Tail(seq)

Msg(type, domain) == [type |-> type, domain |-> domain]

(***************************************************************************)
(* The background (src/entrypoints/background.ts)                          *)
(***************************************************************************)
\* AbortControllers are objects: a new one is any identity not in use.
Referenced(scans, rs) ==
    ({ scans[d] : d \in Roots } \cup { rs[t].ctl : t \in Tickets }) \ {0}

NewController(scans) ==
    CHOOSE c \in 1..(Cardinality(Roots) + MaxAdmit + 1) :
        /\ c \notin Referenced(scans, runs)
        /\ \A c2 \in 1..(c - 1) : c2 \in Referenced(scans, runs)

scanIdOf(m) == IF m.domain # Null THEN getRootDomain(m.domain) ELSE Null

Bg(scans, ab, reply) == [scans |-> scans, ab |-> ab, reply |-> reply]

\* A cancelScan that aborts the stored controller and leaves it stored.
cancelWithoutDelete(bg, scanId) ==
    IF scanId # Null /\ bg.scans[scanId] # 0
    THEN Bg(bg.scans, bg.ab \cup {bg.scans[scanId]}, "ok")
    ELSE Bg(bg.scans, bg.ab, "ok")

\* CANCEL_SCAN: the stored controller is aborted and deleted.
cancelScan(bg, scanId) ==
    IF scanId # Null /\ bg.scans[scanId] # 0
    THEN Bg([bg.scans EXCEPT ![scanId] = 0],
            bg.ab \cup {bg.scans[scanId]}, "ok")
    ELSE Bg(bg.scans, bg.ab, "ok")

\* A startScanSession that leaves the controller of the previous session as
\* it is.
startWithoutAbort(bg, scanId) ==
    IF scanId # Null
    THEN Bg([bg.scans EXCEPT ![scanId] = NewController(bg.scans)], bg.ab, "ok")
    ELSE Bg(bg.scans, bg.ab, "ok")

\* START_SCAN_SESSION: a stored controller is aborted, a new one is stored.
startScanSession(bg, scanId) ==
    IF scanId # Null
    THEN Bg([bg.scans EXCEPT ![scanId] = NewController(bg.scans)],
            bg.ab \cup ({bg.scans[scanId]} \ {0}), "ok")
    ELSE Bg(bg.scans, bg.ab, "ok")

\* CHECK_URL: a controller is stored if there is none, and checkUrl fetches
\* with its signal.
checkUrlMessage(bg, scanId) ==
    IF scanId = Null THEN Bg(bg.scans, bg.ab, "No domain")
    ELSE IF bg.scans[scanId] = 0
         THEN Bg([bg.scans EXCEPT ![scanId] = NewController(bg.scans)],
                 bg.ab, "fetch")
         ELSE Bg(bg.scans, bg.ab, "fetch")

\* handleMessage: the state of the background after message m, and its answer
\* ("fetch": the answer is that of the fetch checkUrl started).
handleMessage(bg, m) ==
    LET scanId == scanIdOf(m)
        controller == IF scanId # Null THEN bg.scans[scanId] ELSE 0
    IN IF controller # 0 /\ controller \in bg.ab
       THEN Bg(bg.scans, bg.ab, "Scan cancelled")
       ELSE IF m.type = "CHECK_URL" THEN checkUrlMessage(bg, scanId)
       ELSE IF m.type = "CANCEL_SCAN" THEN cancelScan(bg, scanId)
       ELSE IF m.type = "START_SCAN_SESSION" THEN startScanSession(bg, scanId)
       ELSE Bg(bg.scans, bg.ab, "Unknown message type")

RECURSIVE handleAll(_, _)
handleAll(bg, msgs) ==
    IF msgs = <<>> THEN bg
    ELSE handleAll(handleMessage(bg, Head(msgs)), Tail(msgs))

BgNow == Bg(activeScans, aborted, "")

\* The background after the messages of one step; aborted controllers that
\* nothing refers to any more are forgotten.
BgBecomes(bg) ==
    /\ activeScans' = bg.scans
    /\ aborted' = bg.ab \cap Referenced(bg.scans, runs')

(***************************************************************************)
(* The store (unnamed/part_003)                                            *)
(***************************************************************************)
wasScannedInHistory(rootDomain) ==
    \E i \in 1..Len(history) : history[i].rootDomain = rootDomain

\* An admission test that forgets the queue.
admitsQueued(rootDomain) ==
    \/ currentlyScanningDomain = rootDomain
    \/ rootDomain \in ignoredDomains
    \/ wasScannedInHistory(rootDomain)

\* An admission test that forgets the history.
admitsScanned(rootDomain) ==
    \/ includes(scanQueue, rootDomain)
    \/ currentlyScanningDomain = rootDomain
    \/ rootDomain \in ignoredDomains

\* The admission test of addScanToQueue.
alreadyHandled(rootDomain) ==
    \/ includes(scanQueue, rootDomain)
    \/ currentlyScanningDomain = rootDomain
    \/ rootDomain \in ignoredDomains
    \/ wasScannedInHistory(rootDomain)

AddScanToQueue(domain) ==
    LET rootDomain == getRootDomain(domain) IN
    /\ Record("addScanToQueue", domain, 0, "", <<>>)
    /\ IF rootDomain = Null \/ alreadyHandled(rootDomain)
       THEN UNCHANGED <<storeVars, queueTickets, nextTicket>>
       ELSE /\ nextTicket <= MaxAdmit
            /\ scanQueue' = Append(scanQueue, rootDomain)
            /\ initialQueueLength' =
                   IF isProcessingQueue THEN initialQueueLength
                                        ELSE Len(scanQueue) + 1
            /\ queueTickets' = Append(queueTickets, nextTicket)
            /\ nextTicket' = nextTicket + 1
            /\ UNCHANGED <<isProcessingQueue, currentlyScanningDomain, history,
                           ignoredDomains>>
    /\ UNCHANGED <<activeScans, aborted, runs, stoppedTickets, currentRun>>

\* An addScanResults that keeps the earlier item of the root domain.
addWithoutReplace(results) ==
    IF results = <<>> THEN history
    ELSE LET rootDomain == getRootDomain(results[1].domain) IN
         IF rootDomain = Null THEN history
         ELSE <<[rootDomain |-> rootDomain, run |-> results[1].run]>> \o history

\* The history addScanResults leaves; a ScanResult[] is abstracted to the
\* domain of each result and the run that produced it.
addScanResults(results) ==
    IF results = <<>> THEN history
    ELSE LET rootDomain == getRootDomain(results[1].domain) IN
         IF rootDomain = Null THEN history
         ELSE <<[rootDomain |-> rootDomain, run |-> results[1].run]>>
              \o SelectSeq(history, LAMBDA h : h.rootDomain # rootDomain)

\* A processQueue that takes the newest entry.
newestIndex(queue) == Len(queue)

\* The entry of the queue processQueue takes.
domainToScanIndex(queue) == 1

\* processQueue up to its first await. The START_SCAN_SESSION message is
\* delivered, or browser.runtime.sendMessage rejects: the await is outside
\* the try block, so the run ends there with the store as it is.
ProcessQueue(delivered) ==
    IF isProcessingQueue \/ Len(scanQueue) = 0
    THEN /\ Record("processQueue", Null, 0, "", <<>>)
         /\ IF Len(scanQueue) = 0
            THEN /\ isProcessingQueue' = FALSE
                 /\ currentlyScanningDomain' = Null
                 /\ initialQueueLength' = 0
                 /\ currentRun' = 0
            ELSE UNCHANGED <<isProcessingQueue, currentlyScanningDomain,
                             initialQueueLength, currentRun>>
         /\ UNCHANGED <<scanQueue, history, ignoredDomains, activeScans,
                        aborted, runs, queueTickets, nextTicket,
                        stoppedTickets>>
    ELSE LET i == domainToScanIndex(scanQueue)
             domainToScan == scanQueue[i]
             t == queueTickets[i]
             m == Msg("START_SCAN_SESSION", domainToScan)
         IN /\ Record("processQueue", domainToScan, t, "", <<m>>)
            /\ initialQueueLength' = Len(scanQueue)
            /\ isProcessingQueue' = TRUE
            /\ currentlyScanningDomain' = domainToScan
            /\ currentRun' = t
            /\ runs' = [runs EXCEPT ![t] =
                           [NoRun EXCEPT !.pc = IF delivered THEN "start"
                                                             ELSE "dead",
                                         !.dom = domainToScan]]
            /\ BgBecomes(IF delivered THEN handleMessage(BgNow, m) ELSE BgNow)
            /\ UNCHANGED <<scanQueue, history, ignoredDomains, queueTickets,
                           nextTicket, stoppedTickets>>

\* The effect that drains the queue (useScanHistory, second useEffect).
DrainEffect ==
    /\ Len(scanQueue) > 0
    /\ ~isProcessingQueue
    /\ \E delivered \in BOOLEAN : ProcessQueue(delivered)

\* A skip that drops the newest entry.
withoutNewest(queue) == SubSeq(queue, 1, Len(queue) - 1)

\* The queue skipCurrentScan leaves.
skippedQueue(queue) == slice1(queue)

UnderWay(r) == r.pc \in {"start", "fetching"}

MarkCancelled(rs, t) ==
    IF t = 0 THEN rs ELSE [rs EXCEPT ![t].cancelled = UnderWay(rs[t])]

MarkStopped(rs) ==
    [t \in Tickets |-> IF UnderWay(rs[t]) THEN [rs[t] EXCEPT !.stopped = TRUE]
                                          ELSE rs[t]]

SkipCurrentScan ==
    LET domainToSkip == currentlyScanningDomain
        m == Msg("CANCEL_SCAN", domainToSkip)
    IN IF domainToSkip = Null
       THEN /\ Record("skipCurrentScan", Null, 0, "", <<>>)
            /\ UNCHANGED <<storeVars, activeScans, aborted, runs, queueTickets,
                           nextTicket, stoppedTickets, currentRun>>
       ELSE /\ Record("skipCurrentScan", domainToSkip, currentRun,
                      "Scan Skipped", <<m>>)
            /\ scanQueue' = skippedQueue(scanQueue)
            /\ queueTickets' = skippedQueue(queueTickets)
            /\ isProcessingQueue' = FALSE
            /\ currentlyScanningDomain' = Null
            /\ runs' = MarkCancelled(runs, currentRun)
            /\ currentRun' = 0
            /\ BgBecomes(handleMessage(BgNow, m))
            /\ UNCHANGED <<history, ignoredDomains, initialQueueLength,
                           nextTicket, stoppedTickets>>

RECURSIVE dedupe(_)
dedupe(seq) ==
    IF seq = <<>> THEN <<>>
    ELSE LET init == dedupe(SubSeq(seq, 1, Len(seq) - 1))
             last == seq[Len(seq)]
         IN IF includes(init, last) THEN init ELSE Append(init, last)

\* The domains stopAllScans cancels, in the order it sends the messages.
allDomains ==
    dedupe(SelectSeq(<<currentlyScanningDomain>> \o scanQueue,
                     LAMBDA d : d # Null))

cancelMessages(domains) ==
    [i \in 1..Len(domains) |-> Msg("CANCEL_SCAN", domains[i])]

StopAllScans ==
    /\ Record("stopAllScans", currentlyScanningDomain, currentRun,
              "All Scans Stopped", cancelMessages(allDomains))
    /\ scanQueue' = <<>>
    /\ isProcessingQueue' = FALSE
    /\ currentlyScanningDomain' = Null
    /\ initialQueueLength' = 0
    /\ queueTickets' = <<>>
    /\ stoppedTickets' =
           stoppedTickets \cup { queueTickets[i] : i \in 1..Len(queueTickets) }
    /\ runs' = MarkStopped(MarkCancelled(runs, currentRun))
    /\ currentRun' = 0
    /\ BgBecomes(handleAll(BgNow, cancelMessages(allDomains)))
    /\ UNCHANGED <<history, ignoredDomains, nextTicket>>

DeleteHistoryItem(rootDomain) ==
    /\ Record("deleteHistoryItem", rootDomain, 0, "", <<>>)
    /\ history' = SelectSeq(history, LAMBDA h : h.rootDomain # rootDomain)
    /\ UNCHANGED <<scanQueue, isProcessingQueue, currentlyScanningDomain,
                   ignoredDomains, initialQueueLength, activeScans, aborted,
                   runs, queueTickets, nextTicket, stoppedTickets, currentRun>>

AddIgnoredDomain(domain) ==
    /\ Record("addIgnoredDomain", domain, 0, "", <<>>)
    /\ ignoredDomains' = ignoredDomains \cup {domain}
    /\ UNCHANGED <<scanQueue, isProcessingQueue, currentlyScanningDomain,
                   history, initialQueueLength, activeScans, aborted, runs,
                   queueTickets, nextTicket, stoppedTickets, currentRun>>

RemoveIgnoredDomain(domain) ==
    /\ Record("removeIgnoredDomain", domain, 0, "", <<>>)
    /\ ignoredDomains' = ignoredDomains \ {domain}
    /\ UNCHANGED <<scanQueue, isProcessingQueue, currentlyScanningDomain,
                   history, initialQueueLength, activeScans, aborted, runs,
                   queueTickets, nextTicket, stoppedTickets, currentRun>>

(***************************************************************************)
(* A run of processQueue after its first await: with the reply to          *)
(* START_SCAN_SESSION the settings are read and performScan                *)
(* (unnamed/part_001, lines 101-178, with the default empty API key) is    *)
(* called; its runReconChecks probes the wordlist's paths one after the    *)
(* other through CHECK_URL messages (pc "fetching": the answer to the      *)
(* probe of entry `probe` is awaited).                                     *)
(***************************************************************************)
\* The guard of the code after performScan returned.
resultIsStale(domainToScan) == currentlyScanningDomain # domainToScan

\* A finally block that never advances the queue.
finallyNever(domainToScan) == FALSE

\* The guard of the finally block.
finallyApplies(domainToScan) == currentlyScanningDomain = domainToScan

FinallyBlock(domainToScan) ==
    IF finallyApplies(domainToScan)
    THEN /\ scanQueue' = slice1(scanQueue)
         /\ queueTickets' = slice1(queueTickets)
         /\ isProcessingQueue' = FALSE
         /\ currentlyScanningDomain' = Null
         /\ currentRun' = 0
    ELSE UNCHANGED <<scanQueue, queueTickets, isProcessingQueue,
                     currentlyScanningDomain, currentRun>>

\* performScan returned: its results hold one ScanResult, of the root domain.
ScanReturned(t) ==
    LET domainToScan == runs[t].dom
        results == <<[domain |-> getRootDomain(domainToScan), run |-> t]>>
    IN /\ IF resultIsStale(domainToScan)
          THEN /\ UNCHANGED history
               /\ Record("scanReturned", domainToScan, t, "", <<>>)
          ELSE /\ history' = addScanResults(results)
               /\ Record("scanReturned", domainToScan, t, "Scan Complete", <<>>)
       /\ FinallyBlock(domainToScan)

\* performScan threw an error whose message is not 'Scan cancelled'.
ScanThrew(t) ==
    LET domainToScan == runs[t].dom IN
    /\ Record("scanThrew", domainToScan, t,
              IF currentlyScanningDomain = domainToScan THEN "Scan Failed"
                                                        ELSE "", <<>>)
    /\ UNCHANGED history
    /\ FinallyBlock(domainToScan)

\* runReconChecks goes on with entry k of the wordlist, or performScan returns.
NextProbe(t, k) ==
    IF k < WordlistLen
    THEN LET m == Msg("CHECK_URL", runs[t].dom)
             bg == handleMessage(BgNow, m)
         IN /\ runs' = [runs EXCEPT ![t] =
                           [@ EXCEPT !.pc = "fetching", !.probe = k,
                                     !.ctl = IF bg.reply = "fetch"
                                             THEN bg.scans[scanIdOf(m)]
                                             ELSE 0]]
            /\ BgBecomes(bg)
            /\ Record("probe", runs[t].dom, t, "", <<m>>)
            /\ UNCHANGED <<scanQueue, queueTickets, isProcessingQueue,
                           currentlyScanningDomain, currentRun, history>>
    ELSE /\ runs' = [runs EXCEPT ![t] = [@ EXCEPT !.pc = "done", !.probe = k,
                                                   !.ctl = 0]]
         /\ BgBecomes(BgNow)
         /\ ScanReturned(t)

\* The reply to START_SCAN_SESSION arrived, the settings are read and
\* performScan is called. A stored wordlist without endpoints makes every
\* runReconChecks throw, and performScan with them.
RunSettings(t, wordlistOk) ==
    /\ runs[t].pc = "start"
    /\ IF wordlistOk
       THEN NextProbe(t, 0)
       ELSE /\ runs' = [runs EXCEPT ![t].pc = "done"]
            /\ UNCHANGED <<activeScans, aborted>>
            /\ ScanThrew(t)
    /\ UNCHANGED <<ignoredDomains, initialQueueLength, nextTicket,
                   stoppedTickets>>

\* checkUrl answers: with a status or a failure, or, once the signal is
\* aborted, with 'Scan cancelled'. runReconChecks goes on in every case.
FetchDone(t) ==
    /\ runs[t].pc = "fetching"
    /\ NextProbe(t, runs[t].probe + 1)
    /\ UNCHANGED <<ignoredDomains, initialQueueLength, nextTicket,
                   stoppedTickets>>

(***************************************************************************)
(* Specifications                                                          *)
(***************************************************************************)
Next ==
    \/ \E domain \in HostInputs : AddScanToQueue(domain)
    \/ \E delivered \in BOOLEAN : ProcessQueue(delivered)
    \/ SkipCurrentScan
    \/ StopAllScans
    \/ \E rootDomain \in Roots : DeleteHistoryItem(rootDomain)
    \/ \E domain \in IgnoreInputs : AddIgnoredDomain(domain)
    \/ \E domain \in IgnoreInputs : RemoveIgnoredDomain(domain)
    \/ \E t \in Tickets, wordlistOk \in BOOLEAN : RunSettings(t, wordlistOk)
    \/ \E t \in Tickets : FetchDone(t)

Spec == Init /\ [][Next]_vars

\* The same behaviours, with the last operation recorded in lastOp.
SpecObserved == InitObserved /\ [][Next]_vars

\* The scheduling of the code: the drain effect runs after every change of
\* the store, an awaited reply or settings read comes, and a fetch ends (with
\* a response, a failure or its abort).
Fairness ==
    /\ WF_vars(DrainEffect)
    /\ \A t \in Tickets :
          /\ WF_vars(\E wordlistOk \in BOOLEAN : RunSettings(t, wordlistOk))
          /\ WF_vars(FetchDone(t))

FairSpec == Init /\ [][Next]_vars /\ Fairness

FairSpecObserved == InitObserved /\ [][Next]_vars /\ Fairness

(***************************************************************************)
(* The history on its own: addScanResults and deleteHistoryItem called in  *)
(* any order with any results (the domain of the first result, which keys  *)
(* the item, is any domain the provider or the user may have given).       *)
(***************************************************************************)
ResultHosts == HostInputs \cup { <<"w", "x", "co", "uk">> }

HistoryRoots == { getRootDomain(h) : h \in ResultHosts } \ {Null}

\* The result sets handed to addScanResults: none, or one told from the
\* others by the number in `run`.
ResultInputs ==
    { <<>> } \cup { <<[domain |-> h, run |-> k]>> :
                       h \in ResultHosts, k \in 0..MaxAdmit }

AddScanResults(results) ==
    /\ Record("addScanResults",
              IF results = <<>> THEN Null ELSE results[1].domain,
              IF results = <<>> THEN 0 ELSE results[1].run, "", <<>>)
    /\ history' = addScanResults(results)
    /\ UNCHANGED <<scanQueue, isProcessingQueue, currentlyScanningDomain,
                   ignoredDomains, initialQueueLength, activeScans, aborted,
                   runs, queueTickets, nextTicket, stoppedTickets, currentRun>>

HistoryNext ==
    \/ \E results \in ResultInputs : AddScanResults(results)
    \/ \E rootDomain \in HistoryRoots : DeleteHistoryItem(rootDomain)

HistorySpec == InitObserved /\ [][HistoryNext]_vars

(***************************************************************************)
(* A recon pass on its own: runReconChecks on one domain with a wordlist,  *)
(* each check with the answer its probe gets. Two variants of the function *)
(* are followed: the sequential one (unnamed/part_001, lines 22-57), which *)
(* looks at the status only, and the batched one (lib/scanner-client.ts,   *)
(* lines 182-268), which probes a batch at a time and matches keywords in  *)
(* the body.                                                               *)
(***************************************************************************)
\* Bound: the checks of a wordlist.
MaxChecks == 2

\* A body is the set of the phrases in it: text.includes(keyword).
textIncludes(text, keyword) == keyword \in text

lowerText(text) == { toLowerCase(s) : s \in text }

\* The checks of the model's wordlists; the first two have the same path and
\* both give the type 'Sensitive File'.
CheckInputs ==
    { [path |-> "/.env", type |-> "file", severity |-> "critical",
       description |-> "env file",
       positive_match |-> {"Index of"}, false_positive_indicators |-> {"Not Found"}],
      [path |-> "/.env", type |-> "config", severity |-> "low",
       description |-> "env config",
       positive_match |-> {"index of"}, false_positive_indicators |-> {"Not Found"}],
      [path |-> "/backup/", type |-> "directory", severity |-> "MEDIUM",
       description |-> "backup listing",
       positive_match |-> {"Index of"}, false_positive_indicators |-> {"not found"}] }

\* What comes back for CHECK_URL: no answer (a failed fetch, a rejected or
\* cancelled message), or a response with its status and body.
Responses ==
    { [success |-> FALSE, status |-> 0, data |-> {}] }
    \cup { [success |-> TRUE, status |-> 200, data |-> text] :
              text \in { {}, {"INDEX OF"}, {"index of", "NOT FOUND"}, {"Not Found"} } }
    \cup { [success |-> TRUE, status |-> s, data |-> {"INDEX OF"}] : s \in {204, 404} }

RECURSIVE SeqsUpTo(_, _)
SeqsUpTo(S, n) ==
    IF n = 0 THEN { <<>> }
    ELSE LET shorter == SeqsUpTo(S, n - 1)
         IN shorter \cup { Append(q, x) : q \in { s \in shorter : Len(s) = n - 1 },
                                          x \in S }

\* The wordlists with the answers of their probes.
Wordlists ==
    SeqsUpTo({ [check |-> c, response |-> r] : c \in CheckInputs, r \in Responses },
             MaxChecks)

batchSize == 10

NoFinding == [path |-> "", severity |-> "", type |-> "", details |-> ""]

\* check.severity.charAt(0).toUpperCase() + check.severity.slice(1)
capitalize(s) ==
    CASE s = "critical" -> "Critical"
      [] s = "high" -> "High"
      [] s = "medium" -> "Medium"
      [] s = "low" -> "Low"
      [] OTHER -> s

findingType(check) ==
    IF check.type = "directory" THEN "Directory Listing" ELSE "Sensitive File"

\* A key that tells two findings of one path apart by their severity.
keyWithSeverity(check) == <<check.path, findingType(check), check.severity>>

findingKey(check) == <<check.path, findingType(check)>>

findingOf(check) ==
    [path |-> check.path, severity |-> capitalize(check.severity),
     type |-> findingType(check), details |-> check.description]

\* The test of the sequential variant: the status alone.
statusFound(response) == response.success /\ response.status = 200

\* res.ok of the Response the batched variant rebuilds.
resOk(response) ==
    response.success /\ response.status >= 200 /\ response.status <= 299

\* The test of the batched variant: res.ok and the keywords.
keywordsFound(check, response) ==
    /\ resOk(response)
    /\ \E keyword \in check.positive_match :
          textIncludes(lowerText(response.data), toLowerCase(keyword))
    /\ ~\E keyword \in check.false_positive_indicators :
          textIncludes(lowerText(response.data), toLowerCase(keyword))

\* The test of the batched variant of part_000: any answer and the keywords.
keywordsAnswered(check, response) ==
    /\ response.success
    /\ \E keyword \in check.positive_match :
          textIncludes(lowerText(response.data), toLowerCase(keyword))
    /\ ~\E keyword \in check.false_positive_indicators :
          textIncludes(lowerText(response.data), toLowerCase(keyword))

found(variant, check, response) ==
    IF variant = "sequential" THEN statusFound(response)
    ELSE IF variant = "unshuffled" THEN keywordsAnswered(check, response)
    ELSE keywordsFound(check, response)

NewPass(variant, checks) ==
    [fn |-> "runReconChecks", variant |-> variant, checks |-> checks,
     pc |-> IF variant = "sequential" THEN "loop"
            ELSE IF variant = "unshuffled" THEN "batch" ELSE "shuffle",
     i |-> 1, pending |-> {}, probed |-> <<>>,
     batchResults |-> [k \in 1..Len(checks) |-> NoFinding],
     findings |-> <<>>, seenFindings |-> {}]

ReconInit ==
    /\ InitStore
    /\ observed = FALSE
    /\ calc \in { NewPass(variant, checks) :
                     variant \in {"sequential", "batched"}, checks \in Wordlists }

Pass(p) == p.fn = "runReconChecks"

\* A loop that a failed probe ends.
abortOnFailure(i, response, n) == IF response.success THEN i + 1 ELSE n + 1

\* Where the sequential loop goes on after the probe of check i of n: a
\* failed probe is skipped (part_001) or its error caught (lib/scanner-client.ts).
afterProbe(i, response, n) == i + 1

\* One turn of the sequential loop: the probe of check i is sent and
\* answered, and a finding is pushed when the test holds and its key is new.
SeqCheck ==
    /\ Pass(calc) /\ calc.variant = "sequential" /\ calc.pc = "loop"
    /\ calc.i <= Len(calc.checks)
    /\ LET check == calc.checks[calc.i].check
           response == calc.checks[calc.i].response
           hit == /\ found(calc.variant, check, response)
                  /\ findingKey(check) \notin calc.seenFindings
       IN calc' = [calc EXCEPT
                     !.i = afterProbe(calc.i, response, Len(calc.checks)),
                     !.probed = Append(@, calc.i),
                     !.findings = IF hit THEN Append(@, findingOf(check)) ELSE @,
                     !.seenFindings = IF hit THEN @ \cup {findingKey(check)} ELSE @]
    /\ UNCHANGED queueVars

\* The Fisher-Yates shuffle of the batched variant: any order of the checks.
Shuffle ==
    /\ Pass(calc) /\ calc.pc = "shuffle"
    /\ \E order \in [1..Len(calc.checks) -> 1..Len(calc.checks)] :
          /\ \A a, b \in 1..Len(calc.checks) : order[a] = order[b] => a = b
          /\ calc' = [calc EXCEPT
                        !.checks = [k \in 1..Len(calc.checks) |-> calc.checks[order[k]]],
                        !.pc = "batch"]
    /\ UNCHANGED queueVars

\* A batch that is all the checks from i on.
batchOfAll(p) == Len(p.checks)

batchEnd(p) ==
    IF p.i + batchSize - 1 < Len(p.checks) THEN p.i + batchSize - 1
                                           ELSE Len(p.checks)

\* The probes of the next batch are all sent.
StartBatch ==
    /\ Pass(calc) /\ calc.pc = "batch" /\ calc.i <= Len(calc.checks)
    /\ calc' = [calc EXCEPT
                  !.pc = "await",
                  !.pending = calc.i..batchEnd(calc),
                  !.probed = @ \o [j \in 1..(batchEnd(calc) - calc.i + 1) |->
                                      calc.i + j - 1],
                  !.batchResults = [k \in 1..Len(calc.checks) |-> NoFinding]]
    /\ UNCHANGED queueVars

\* The probe of check k of the batch is answered and its body read: the
\* promise of the check resolves to its finding or to null.
ProbeAnswered(k) ==
    /\ Pass(calc) /\ calc.pc = "await" /\ k \in calc.pending
    /\ LET check == calc.checks[k].check
           response == calc.checks[k].response
           hit == /\ found(calc.variant, check, response)
                  /\ findingKey(check) \notin calc.seenFindings
       IN calc' = [calc EXCEPT
                     !.pending = @ \ {k},
                     !.batchResults[k] = IF hit THEN findingOf(check) ELSE NoFinding,
                     !.seenFindings = IF hit THEN @ \cup {findingKey(check)} ELSE @]
    /\ UNCHANGED queueVars

\* The results of positions a..b that are not null, in their order.
RECURSIVE nonNull(_, _, _)
nonNull(results, a, b) ==
    IF a > b THEN <<>>
    ELSE (IF results[a] = NoFinding THEN <<>> ELSE <<results[a]>>)
         \o nonNull(results, a + 1, b)

\* Promise.all of the batch resolves: its findings are pushed.
EndBatch ==
    /\ Pass(calc) /\ calc.pc = "await" /\ calc.pending = {}
    /\ calc' = [calc EXCEPT
                  !.pc = "batch",
                  !.findings = @ \o nonNull(calc.batchResults, calc.i, batchEnd(calc)),
                  !.i = @ + batchSize]
    /\ UNCHANGED queueVars

\* runReconChecks returns its findings.
ReconReturn ==
    /\ Pass(calc) /\ calc.pc \in {"loop", "batch"}
    /\ calc.i > Len(calc.checks)
    /\ calc' = [calc EXCEPT !.pc = "done"]
    /\ UNCHANGED queueVars

ReconNext ==
    \/ SeqCheck
    \/ Shuffle
    \/ StartBatch
    \/ \E k \in 1..MaxChecks : ProbeAnswered(k)
    \/ EndBatch
    \/ ReconReturn

ReconSpec == ReconInit /\ [][ReconNext]_vars

(***************************************************************************)
(* The status performScan derives from the findings of a domain            *)
(* (unnamed/part_001, lines 146-157; the same in every variant).           *)
(***************************************************************************)
\* Bound: the findings of a domain.
MaxFindings == 3

\* The severities a finding can carry: capitalize of the wordlist's.
Severities == {"Critical", "High", "Medium", "Low", "MEDIUM"}

FindingLists ==
    SeqsUpTo({ [path |-> "/.env", severity |-> s, type |-> "Sensitive File",
                details |-> "env file"] : s \in Severities }, MaxFindings)

some(findings, severity) ==
    \E j \in 1..Len(findings) : findings[j].severity = severity

\* A derivation that overlooks the severity High.
statusWithoutHigh(findings) ==
    IF Len(findings) > 0
    THEN IF some(findings, "Critical") THEN "Vulnerable"
         ELSE IF some(findings, "Medium") THEN "Potentially Vulnerable"
         ELSE "Scanned"
    ELSE "Secure"

deriveStatus(findings) ==
    IF Len(findings) > 0
    THEN LET hasCritical == some(findings, "Critical")
             hasHigh == some(findings, "High")
             hasMedium == some(findings, "Medium")
         IN IF hasCritical THEN "Vulnerable"
            ELSE IF hasHigh THEN "Vulnerable"
            ELSE IF hasMedium THEN "Potentially Vulnerable"
            ELSE "Scanned"
    ELSE "Secure"

StatusInit ==
    /\ InitStore
    /\ observed = FALSE
    /\ calc \in { [fn |-> "status", findings |-> f, pc |-> "call", status |-> ""] :
                     f \in FindingLists }

DeriveStatus ==
    /\ calc.fn = "status" /\ calc.pc = "call"
    /\ calc' = [calc EXCEPT !.status = deriveStatus(calc.findings), !.pc = "done"]
    /\ UNCHANGED queueVars

StatusNext == DeriveStatus

StatusSpec == StatusInit /\ [][StatusNext]_vars

(***************************************************************************)
(* performScan and the subdomain lookup, followed on their own             *)
(***************************************************************************)
MaxSubs == 1

SUBDOMAIN_THRESHOLD == 50

\* The performScan of part_001 scans every candidate without a liveness
\* probe; the one of lib/scanner-client.ts probes https://{domain} first and
\* drops the domains without an answer; the one of part_000 probes too and
\* reports the domains without an answer as 'Scanned'.
ScanVariants == {"unchecked", "liveChecked", "liveReported"}

\* input.domain: a root domain, as processQueue passes it, and a subdomain.
ScanInputs == { <<"a", "com">>, <<"x", "a", "com">> }

ApiKeys == {"", "key"}

\* An element of the provider's list that is no string: toLowerCase is not a
\* function of it.
NonString == <<"{name}">>

\* The elements of the provider's list.
ProviderNames ==
    { <<"s", "a", "com">>, <<"S", "a", "com">>, <<"WWW", "a", "com">>, NonString }

\* The hosts performScan may come to scan.
ScanHosts == { <<"a", "com">>, <<"x", "a", "com">>, <<"s", "a", "com">> }

Range(q) == { q[k] : k \in 1..Len(q) }

\* subdomain.toLowerCase() of a host name.
lowerName(name) == [k \in 1..Len(name) |-> toLowerCase(name[k])]

excludePatterns == {"www", "webmail", "mail", "cpanel", "autodiscover", "shop", "blog"}

\* An exclusion that lets the names of www through.
excludedButWww(name) ==
    Len(name) > 1 /\ toLowerCase(name[1]) \in excludePatterns \ {"www"}

isExcludedSubdomain(name) ==
    Len(name) > 1 /\ toLowerCase(name[1]) \in excludePatterns

\* The JSON of the provider as performScan reads it: response.domains is
\* missing, is an object that is no list, or is a list.
NoPayload == [shape |-> "missing", domains |-> <<>>]

Payloads ==
    { NoPayload, [shape |-> "object", domains |-> <<>>] }
    \cup { [shape |-> "list", domains |-> l] : l \in SeqsUpTo(ProviderNames, MaxSubs) }

\* What fetch of the provider's URL gives: no connection, a status that is
\* not 2xx, a body that is no JSON, or JSON.
ProviderAnswers ==
    { [kind |-> k, data |-> NoPayload] : k \in {"unreachable", "status", "invalidJson"} }
    \cup { [kind |-> "json", data |-> p] : p \in Payloads }

\* fetchSubdomains without its test of the key.
fetchWithoutKeyGuard(domain, apiKey, provider) ==
    IF provider.kind = "json"
    THEN [success |-> TRUE, data |-> provider.data, fetched |-> TRUE]
    ELSE [success |-> FALSE, data |-> NoPayload, fetched |-> TRUE]

\* fetchSubdomains of the background: its answer, and whether it called fetch.
fetchSubdomains(domain, apiKey, provider) ==
    IF apiKey = ""
    THEN [success |-> TRUE, data |-> [shape |-> "list", domains |-> <<>>],
          fetched |-> FALSE]
    ELSE IF provider.kind = "json"
         THEN [success |-> TRUE, data |-> provider.data, fetched |-> TRUE]
         ELSE [success |-> FALSE, data |-> NoPayload, fetched |-> TRUE]

\* How a FETCH_SUBDOMAINS message fares: sendMessage rejects, the guard of
\* handleMessage answers 'Scan cancelled', or fetchSubdomains answers.
Deliveries == {"rejected", "cancelled", "answered"}

\* What browser.runtime.sendMessage gives performScan for FETCH_SUBDOMAINS.
lookupMessage(delivery, domain, apiKey, provider) ==
    IF delivery = "rejected"
    THEN [rejected |-> TRUE, success |-> FALSE, data |-> NoPayload, fetched |-> FALSE]
    ELSE IF delivery = "cancelled"
         THEN [rejected |-> FALSE, success |-> FALSE, data |-> NoPayload,
               fetched |-> FALSE]
         ELSE LET r == fetchSubdomains(domain, apiKey, provider)
              IN [rejected |-> FALSE, success |-> r.success, data |-> r.data,
                  fetched |-> r.fetched]

\* sendMessageToBackground: part_001 turns a rejection into an answer with
\* success false and returns every answer; the others throw on a rejection
\* and on an answer with success false.
sendMessageToBackground(variant, raw) ==
    IF variant = "unchecked"
    THEN [threw |-> FALSE, success |-> ~raw.rejected /\ raw.success, data |-> raw.data]
    ELSE [threw |-> raw.rejected \/ ~raw.success, success |-> raw.success,
          data |-> raw.data]

\* subdomains.forEach from element k on: the names are lower-cased, the
\* excluded and the known ones left out; an element that is no string throws,
\* and what was added before it stays.
forEachSubdomain(subdomains, k, acc) ==
    LET thrown == { j \in k..Len(subdomains) : subdomains[j] = NonString }
        last == IF thrown = {} THEN Len(subdomains)
                ELSE (CHOOSE j \in thrown : \A j2 \in thrown : j <= j2) - 1
        name(j) == lowerName(subdomains[j])
        added(j) == /\ ~isExcludedSubdomain(name(j))
                    /\ name(j) \notin Range(acc)
                    /\ \A j2 \in k..(j - 1) : name(j2) # name(j)
        walked == SelectSeq([j \in 1..last |-> j], LAMBDA j : j >= k /\ added(j))
    IN acc \o [n \in 1..Len(walked) |-> name(walked[n])]
slice(subdomains) ==
    IF Len(subdomains) > SUBDOMAIN_THRESHOLD
    THEN SubSeq(subdomains, 1, SUBDOMAIN_THRESHOLD)
    ELSE subdomains

\* The list performScan reads from the answer of the lookup.
readDomains(response) ==
    IF ~response.threw /\ response.success /\ response.data.shape = "list"
    THEN response.data.domains
    ELSE <<>>

\* The domains to scan, in the order of the code, from the answer of the
\* lookup.
domainsFrom(variant, domain, response) ==
    LET rootDomain == getRootDomain(domain)
    IN IF variant = "unchecked"
       THEN Append(forEachSubdomain(readDomains(response), 1, <<>>), rootDomain)
       ELSE LET found1 == forEachSubdomain(slice(readDomains(response)), 1,
                                           <<rootDomain>>)
            IN IF domain # rootDomain /\ domain \notin Range(found1)
               THEN Append(found1, domain)
               ELSE found1

NoResponse == [threw |-> FALSE, success |-> TRUE, data |-> NoPayload]

\* A subdomain stage without its try/catch: a failed message and a list
\* that cannot be walked end performScan.
stageWithoutCatch(variant, domain, apiKey, raw) ==
    IF apiKey = ""
    THEN [threw |-> FALSE, domains |-> domainsFrom(variant, domain, NoResponse)]
    ELSE LET response == sendMessageToBackground(variant, raw)
         IN [threw |-> \/ response.threw
                       \/ ~response.success
                       \/ response.data.shape = "object"
                       \/ NonString \in Range(response.data.domains),
             domains |-> domainsFrom(variant, domain, response)]

\* The subdomain stage of performScan: with a key the lookup is asked, and
\* whatever it throws is caught.
subdomainStage(variant, domain, apiKey, raw) ==
    IF apiKey = ""
    THEN [threw |-> FALSE, domains |-> domainsFrom(variant, domain, NoResponse)]
    ELSE [threw |-> FALSE,
          domains |-> domainsFrom(variant, domain,
                                  sendMessageToBackground(variant, raw))]

\* What comes back for the CHECK_URL of https://{domain}: status 200, another
\* status, a redirect to another path, a failed connection, a cancelled scan.
LiveAnswers ==
    { [success |-> TRUE, status |-> 200, moved |-> FALSE, error |-> ""],
      [success |-> TRUE, status |-> 404, moved |-> FALSE, error |-> ""],
      [success |-> TRUE, status |-> 301, moved |-> TRUE, error |-> ""],
      [success |-> FALSE, status |-> 0, moved |-> FALSE, error |-> "Connection timed out or failed"],
      [success |-> FALSE, status |-> 0, moved |-> FALSE, error |-> "Scan cancelled"] }

\* liveCheckResponse as the test of performScan takes it: checkUrl of the
\* client gives null for a failed message and for a redirect to another
\* path, and a Response of whatever status otherwise; part_000 takes any
\* answer the message did not throw on.
liveCheckResponse(variant, answer) ==
    IF variant = "liveChecked" THEN answer.success /\ ~answer.moved
    ELSE answer.success

\* The results of performScan; status 'null' stands for the null of a
\* dropped domain, 'pending' for a promise not yet settled.
NoResult == [domain |-> Null, status |-> "null", findings |-> <<>>]

Pending == [domain |-> Null, status |-> "pending", findings |-> <<>>]

\* The findings runReconChecks returns for a host: the ones of the wordlist
\* when the host answers, none when it does not.
ReconFindings ==
    { <<>>,
      << [path |-> "/.env", severity |-> "Critical", type |-> "Sensitive File",
          details |-> "env file"] >> }

reconOf(answer, recon) == IF answer.success THEN recon ELSE <<>>

\* One promise of scanPromises.
scanPromise(variant, domain, answer, recon) ==
    LET findings == reconOf(answer, recon)
        scanned == [domain |-> domain, status |-> deriveStatus(findings),
                    findings |-> findings]
    IN IF variant = "unchecked" THEN scanned
       ELSE IF liveCheckResponse(variant, answer) THEN scanned
       ELSE IF variant = "liveReported"
            THEN [domain |-> domain, status |-> "Scanned", findings |-> <<>>]
            ELSE NoResult

NewScan(variant, domain, apiKey, delivery, provider, live, recon) ==
    [fn |-> "performScan", variant |-> variant, domain |-> domain,
     apiKey |-> apiKey, delivery |-> delivery, provider |-> provider,
     live |-> live, recon |-> recon, pc |-> "lookup", sent |-> {},
     fetches |-> 0, domains |-> <<>>, settled |-> <<>>, results |-> <<>>,
     threw |-> FALSE]

\* A FETCH_SUBDOMAINS message handled on its own.
NewLookup(domain, apiKey, provider) ==
    [fn |-> "fetchSubdomains", domain |-> domain, apiKey |-> apiKey,
     provider |-> provider, pc |-> "call", fetches |-> 0,
     answer |-> [success |-> FALSE, data |-> NoPayload, fetched |-> FALSE]]

FirstProvider == [kind |-> "unreachable", data |-> NoPayload]

ScanInit ==
    /\ InitStore
    /\ observed = FALSE
    /\ calc \in
          { NewScan(variant, domain, "", "answered", FirstProvider, live, recon) :
               variant \in ScanVariants, domain \in ScanInputs,
               live \in [ScanHosts -> LiveAnswers], recon \in ReconFindings }
          \cup
          { NewScan(variant, domain, "key", delivery, provider, live, recon) :
               variant \in ScanVariants, domain \in ScanInputs,
               delivery \in Deliveries, provider \in ProviderAnswers,
               live \in [ScanHosts -> LiveAnswers], recon \in ReconFindings }
          \cup
          { NewLookup(domain, apiKey, provider) :
               domain \in ScanInputs, apiKey \in ApiKeys,
               provider \in ProviderAnswers }

Scan(c) == c.fn = "performScan"

\* performScan up to scanPromises: the lookup, when there is a key, and the
\* domains to scan.
ScanLookup ==
    /\ Scan(calc) /\ calc.pc = "lookup"
    /\ LET rootDomain == getRootDomain(calc.domain)
           raw == lookupMessage(calc.delivery, rootDomain, calc.apiKey, calc.provider)
           stage == subdomainStage(calc.variant, calc.domain, calc.apiKey, raw)
           asked == calc.apiKey # ""
       IN calc' = [calc EXCEPT
                     !.sent = IF asked THEN @ \cup {"FETCH_SUBDOMAINS"} ELSE @,
                     !.fetches = IF asked /\ raw.fetched THEN @ + 1 ELSE @,
                     !.threw = stage.threw,
                     !.domains = stage.domains,
                     !.settled = [k \in 1..Len(stage.domains) |-> Pending],
                     !.pc = IF stage.threw THEN "done" ELSE "domains"]
    /\ UNCHANGED queueVars

\* The promise of one domain settles.
ScanDomain(k) ==
    /\ Scan(calc) /\ calc.pc = "domains"
    /\ k \in 1..Len(calc.domains)
    /\ calc.settled[k] = Pending
    /\ LET domain == calc.domains[k]
       IN calc' = [calc EXCEPT
                     !.sent = IF calc.variant = "unchecked" THEN @
                              ELSE @ \cup {"CHECK_URL"},
                     !.settled[k] = scanPromise(calc.variant, domain,
                                                calc.live[domain], calc.recon)]
    /\ UNCHANGED queueVars

\* Promise.all has settled: the nulls are filtered out, and performScan
\* throws when nothing is left.
ScanReturn ==
    /\ Scan(calc) /\ calc.pc = "domains"
    /\ \A k \in 1..Len(calc.domains) : calc.settled[k] # Pending
    /\ LET results == SelectSeq(calc.settled, LAMBDA r : r # NoResult)
       IN calc' = [calc EXCEPT !.results = results,
                               !.threw = Len(results) = 0,
                               !.pc = "done"]
    /\ UNCHANGED queueVars

\* handleMessage of FETCH_SUBDOMAINS.
FetchSubdomainsCall ==
    /\ calc.fn = "fetchSubdomains" /\ calc.pc = "call"
    /\ LET r == fetchSubdomains(calc.domain, calc.apiKey, calc.provider)
       IN calc' = [calc EXCEPT !.answer = r,
                               !.fetches = IF r.fetched THEN @ + 1 ELSE @,
                               !.pc = "done"]
    /\ UNCHANGED queueVars

ScanNext ==
    \/ ScanLookup
    \/ \E k \in 1..(MaxSubs + 2) : ScanDomain(k)
    \/ ScanReturn
    \/ FetchSubdomainsCall

ScanSpec == ScanInit /\ [][ScanNext]_vars

(***************************************************************************)
(* performScan with a long list of the provider                            *)
(***************************************************************************)
MaxProvided == 52

\* The k-th name of a long list of the provider.
ProvidedName(k) == <<ToString(k), "a", "com">>

\* A list of n names, all different, none excluded.
ProvidedList(n) == [k \in 1..n |-> ProvidedName(k)]

\* The lists of the provider by their length; 120 is the length of the
\* end-to-end scenario.
ProvidedLengths == 0..MaxProvided \cup {120}

CapHosts == ScanInputs \cup { ProvidedName(k) : k \in 1..120 }

\* Every host gives the same answer to the probe of https://{domain}.
CapInit ==
    /\ InitStore
    /\ observed = FALSE
    /\ calc \in
          { NewScan(variant, domain, "key", "answered",
                    [kind |-> "json",
                     data |-> [shape |-> "list", domains |-> ProvidedList(n)]],
                    [h \in CapHosts |-> answer], <<>>) :
               variant \in ScanVariants, domain \in ScanInputs,
               n \in ProvidedLengths, answer \in LiveAnswers }

\* scanPromises and Promise.all in one step: every promise settles, the
\* nulls are filtered out, and performScan throws when nothing is left.
ScanAll ==
    /\ Scan(calc) /\ calc.pc = "domains"
    /\ LET settled == [k \in 1..Len(calc.domains) |->
                          scanPromise(calc.variant, calc.domains[k],
                                      calc.live[calc.domains[k]], calc.recon)]
           results == SelectSeq(settled, LAMBDA r : r # NoResult)
       IN calc' = [calc EXCEPT
                     !.sent = IF calc.variant = "unchecked" THEN @
                              ELSE @ \cup {"CHECK_URL"},
                     !.settled = settled,
                     !.results = results,
                     !.threw = Len(results) = 0,
                     !.pc = "done"]
    /\ UNCHANGED queueVars

CapNext == ScanLookup \/ ScanAll

CapSpec == CapInit /\ [][CapNext]_vars

(***************************************************************************)
(* triggerScan and the pending scan of the background                      *)
(***************************************************************************)
\* What storage holds under 'settings': nothing, an object without the
\* field 'auto-scan-enabled', or one with it.
SettingsInputs == {"null", "unset", "false", "true"}

\* settings?.['auto-scan-enabled'] ?? false
isAutoScanEnabled(settings) == settings = "true"

\* A triggerScan that does not read the ignore list.
triggersIgnored(settings, rootDomain, scanned, ignored) ==
    /\ isAutoScanEnabled(settings) /\ rootDomain # Null
    /\ rootDomain \notin scanned

\* The two tests of triggerScan; scanned holds the rootDomain of every item
\* of the persisted history.
autoScanTriggered(settings, rootDomain, scanned, ignored) ==
    /\ isAutoScanEnabled(settings) /\ rootDomain # Null
    /\ LET alreadyScanned == rootDomain \in scanned
           isIgnored == rootDomain \in ignored
       IN ~alreadyScanned /\ ~isIgnored

NoTrigger == [op |-> "none", url |-> Null, sent |-> <<>>, pendingBefore |-> Null]

\* A GET_PENDING_SCAN that leaves the pending scan where it is.
getWithoutClear(pendingScan) == [domain |-> pendingScan, pendingScan |-> pendingScan]

\* handleMessage of GET_PENDING_SCAN: the domain it answers and the
\* pendingScan it leaves.
getPendingScan(pendingScan) == [domain |-> pendingScan, pendingScan |-> Null]

\* The background with its pendingScan, the storage it reads, and the popup;
\* missed holds the domains whose ADD_TO_QUEUE was not delivered since the
\* popup closed, handed the ones given to addScanToQueue since, and returned
\* counts the GET_PENDING_SCAN answers with a domain since pendingScan was
\* last set.
TriggerInit ==
    /\ InitStore
    /\ observed = FALSE
    /\ calc \in
          { [fn |-> "triggerScan", settings |-> settings, scanned |-> scanned,
             ignored |-> ignored, popupOpen |-> FALSE, pendingScan |-> Null,
             missed |-> {}, handed |-> {}, returned |-> 0,
             last |-> NoTrigger] :
               settings \in SettingsInputs, scanned \in SUBSET Roots,
               ignored \in SUBSET Roots }

Trigger(c) == c.fn = "triggerScan"

\* triggerScan(url), from tabs.onUpdated or a TRIGGER_SCAN message: with the
\* popup open the listener of useScanHistory hands the domain to
\* addScanToQueue, with the popup closed sendMessage rejects.
TriggerScan(url) ==
    /\ Trigger(calc)
    /\ LET rootDomain == getRootDomain(url)
           triggered == autoScanTriggered(calc.settings, rootDomain,
                                          calc.scanned, calc.ignored)
           delivered == triggered /\ calc.popupOpen
           rejected == triggered /\ ~calc.popupOpen
       IN calc' = [calc EXCEPT
                     !.pendingScan = IF rejected THEN rootDomain ELSE @,
                     !.returned = IF rejected THEN 0 ELSE @,
                     !.missed = IF rejected THEN @ \cup {rootDomain} ELSE @,
                     !.handed = IF delivered THEN @ \cup {rootDomain} ELSE @,
                     !.last = [op |-> "triggerScan", url |-> url,
                               sent |-> IF triggered
                                        THEN <<Msg("ADD_TO_QUEUE", rootDomain)>>
                                        ELSE <<>>,
                               pendingBefore |-> calc.pendingScan]]
    /\ UNCHANGED queueVars

\* checkPendingScan of the popup: GET_PENDING_SCAN is sent, the background
\* answers with pendingScan and clears it, and a domain in the answer is
\* handed to addScanToQueue.
checkPendingScan(c) ==
    LET answer == getPendingScan(c.pendingScan)
    IN [c EXCEPT
          !.pendingScan = answer.pendingScan,
          !.returned = IF answer.domain # Null THEN @ + 1 ELSE @,
          !.handed = IF answer.domain # Null THEN @ \cup {answer.domain} ELSE @,
          !.last = [op |-> "checkPendingScan", url |-> answer.domain,
                    sent |-> <<Msg("GET_PENDING_SCAN", Null)>>,
                    pendingBefore |-> c.pendingScan]]

\* The popup opens, and the effect of App runs checkPendingScan.
PopupOpens ==
    /\ Trigger(calc) /\ ~calc.popupOpen
    /\ calc' = checkPendingScan([calc EXCEPT !.popupOpen = TRUE, !.handed = {}])
    /\ UNCHANGED queueVars

\* The effect of App runs again while the popup is open.
CheckPendingScan ==
    /\ Trigger(calc) /\ calc.popupOpen
    /\ calc' = checkPendingScan(calc)
    /\ UNCHANGED queueVars

PopupCloses ==
    /\ Trigger(calc) /\ calc.popupOpen
    /\ calc' = [calc EXCEPT !.popupOpen = FALSE, !.missed = {}, !.handed = {},
                            !.last = NoTrigger]
    /\ UNCHANGED queueVars

TriggerNext ==
    \/ \E url \in HostInputs : TriggerScan(url)
    \/ PopupOpens
    \/ CheckPendingScan
    \/ PopupCloses

TriggerSpec == TriggerInit /\ [][TriggerNext]_vars

(***************************************************************************)
(* checkUrl of the background, followed on its own                         *)
(***************************************************************************)
\* The urls probed: https://{domain}{path}.
ProbeUrls == { [domain |-> d, path |-> p] : d \in ScanHosts, p \in {"", "/.env", "/backup/"} }

AbortError == [kind |-> "rejects", status |-> 0, name |-> "AbortError",
               message |-> "The user aborted a request."]

\* How fetch settles: a response of some status (redirects are followed), or
\* a rejection with the name and the message of its error.
FetchOutcomes ==
    { [kind |-> "response", status |-> s, name |-> "", message |-> ""] :
         s \in {200, 204, 403, 404, 500} }
    \cup { AbortError }
    \cup { [kind |-> "rejects", status |-> 0, name |-> "TypeError", message |-> m] :
              m \in {"Failed to fetch", "NetworkError when attempting to fetch resource."} }
    \cup { [kind |-> "rejects", status |-> 0, name |-> "TimeoutError",
            message |-> "The operation timed out."] }

\* A checkUrl without the case of the AbortError.
checkUrlWithoutAbort(outcome) ==
    IF outcome.kind = "response"
    THEN [success |-> TRUE, status |-> outcome.status, error |-> ""]
    ELSE IF outcome.name = "TypeError" /\ outcome.message = "Failed to fetch"
         THEN [success |-> FALSE, status |-> 0,
               error |-> "Connection timed out or failed"]
         ELSE [success |-> FALSE, status |-> 0, error |-> outcome.message]

\* checkUrl(url, signal): its answer for the way fetch settled; error "" is
\* an answer without the field.
checkUrl(outcome) ==
    IF outcome.kind = "response"
    THEN [success |-> TRUE, status |-> outcome.status, error |-> ""]
    ELSE IF outcome.name = "AbortError"
         THEN [success |-> FALSE, status |-> 0, error |-> "Scan cancelled"]
         ELSE IF outcome.name = "TypeError" /\ outcome.message = "Failed to fetch"
              THEN [success |-> FALSE, status |-> 0,
                    error |-> "Connection timed out or failed"]
              ELSE [success |-> FALSE, status |-> 0, error |-> outcome.message]

\* outcome is how the fetch settles unless the signal is aborted first.
CheckInit ==
    /\ InitStore
    /\ observed = FALSE
    /\ calc \in { [fn |-> "checkUrl", url |-> url, outcome |-> outcome,
                   pc |-> "call", signalAborted |-> aborted0,
                   answer |-> [success |-> FALSE, status |-> 0, error |-> ""]] :
                     url \in ProbeUrls, outcome \in FetchOutcomes \ {AbortError},
                     aborted0 \in BOOLEAN }

\* checkUrl calls fetch; with a signal already aborted fetch rejects at once.
CheckUrlFetch ==
    /\ calc.fn = "checkUrl" /\ calc.pc = "call"
    /\ calc' = [calc EXCEPT !.pc = "fetch",
                            !.outcome = IF calc.signalAborted THEN AbortError ELSE @]
    /\ UNCHANGED queueVars

\* The controller of the scan is aborted while the fetch is under way.
CheckUrlAbort ==
    /\ calc.fn = "checkUrl" /\ calc.pc = "fetch" /\ ~calc.signalAborted
    /\ calc' = [calc EXCEPT !.signalAborted = TRUE, !.outcome = AbortError]
    /\ UNCHANGED queueVars

\* fetch settles and checkUrl returns.
CheckUrlReturn ==
    /\ calc.fn = "checkUrl" /\ calc.pc = "fetch"
    /\ calc' = [calc EXCEPT !.answer = checkUrl(calc.outcome), !.pc = "done"]
    /\ UNCHANGED queueVars

CheckNext == CheckUrlFetch \/ CheckUrlAbort \/ CheckUrlReturn

CheckSpec == CheckInit /\ [][CheckNext]_vars

(***************************************************************************)
(* getRootDomain, followed on its own                                      *)
(***************************************************************************)
MaxLabels == 4

Labels == {"a", "x", "co", "com", "uk", "Com", "1", "192"}

\* The hosts getRootDomain is called with, '' among them.
RootInputs == SeqsUpTo(Labels, MaxLabels)

RootInit ==
    /\ InitStore
    /\ observed = FALSE
    /\ calc \in { [fn |-> "getRootDomain", x |-> x, pc |-> "call",
                   parts |-> <<>>, root |-> <<>>, again |-> <<>>] :
                     x \in RootInputs }

\* getRootDomain(x) up to parts: '' is returned for '', the labels of
\* url.hostname or of the input are split otherwise.
SplitHost ==
    /\ calc.fn = "getRootDomain" /\ calc.pc = "call"
    /\ calc' = IF calc.x = <<>>
               THEN [calc EXCEPT !.pc = "root"]
               ELSE [calc EXCEPT !.parts = splitParts(calc.x), !.pc = "parts"]
    /\ UNCHANGED queueVars

\* getRootDomain(x) returns the root domain of parts.
RootOfParts ==
    /\ calc.fn = "getRootDomain" /\ calc.pc = "parts"
    /\ calc' = [calc EXCEPT !.root = rootOfParts(calc.parts), !.pc = "root"]
    /\ UNCHANGED queueVars

\* getRootDomain is called with what it returned.
RootAgain ==
    /\ calc.fn = "getRootDomain" /\ calc.pc = "root"
    /\ calc' = [calc EXCEPT !.again = getRootDomain(calc.root), !.pc = "again"]
    /\ UNCHANGED queueVars

RootNext == SplitHost \/ RootOfParts \/ RootAgain

RootSpec == RootInit /\ [][RootNext]_vars

(***************************************************************************)
(* Two passes of runReconChecks over one wordlist                          *)
(***************************************************************************)
\* The findings of a pass whose probes are tested in the order of checks:
\* the order of the wordlist in the sequential variant, the order in which
\* the probes of the shuffled batch are answered in the batched one.
RECURSIVE probeFrom(_, _, _, _)
probeFrom(variant, checks, k, findings) ==
    IF k > Len(checks) THEN findings
    ELSE LET check == checks[k].check
             seenFindings == { <<findings[j].path, findings[j].type>> :
                                  j \in 1..Len(findings) }
             hit == /\ found(variant, check, checks[k].response)
                    /\ findingKey(check) \notin seenFindings
         IN probeFrom(variant, checks, k + 1,
                      IF hit THEN Append(findings, findingOf(check)) ELSE findings)

runReconChecks(variant, checks) == probeFrom(variant, checks, 1, <<>>)

\* The orders of a wordlist.
Permuted(checks) ==
    { [k \in 1..Len(checks) |-> checks[order[k]]] :
         order \in { f \in [1..Len(checks) -> 1..Len(checks)] :
                        \A a, b \in 1..Len(checks) : f[a] = f[b] => a = b } }

NoOutcome == [findings |-> {}, status |-> ""]

\* What a pass gives its caller: the set of its findings, and the status
\* performScan derives from them.
passOutcome(variant, checks) ==
    LET findings == runReconChecks(variant, checks)
    IN [findings |-> Range(findings), status |-> deriveStatus(findings)]

OrderInit ==
    /\ InitStore
    /\ observed = FALSE
    /\ calc \in { [fn |-> "twoPasses", checks |-> checks, first |-> v1,
                   second |-> v2, pc |-> "first", outcome1 |-> NoOutcome,
                   outcome2 |-> NoOutcome] :
                     checks \in Wordlists, v1, v2 \in {"sequential", "batched"} }

\* A pass over the wordlist in some order.
FirstPass ==
    /\ calc.fn = "twoPasses" /\ calc.pc = "first"
    /\ \E checks \in Permuted(calc.checks) :
          calc' = [calc EXCEPT !.outcome1 = passOutcome(calc.first, checks),
                               !.pc = "second"]
    /\ UNCHANGED queueVars

\* Another pass over the same wordlist, the same answers, in some order.
SecondPass ==
    /\ calc.fn = "twoPasses" /\ calc.pc = "second"
    /\ \E checks \in Permuted(calc.checks) :
          calc' = [calc EXCEPT !.outcome2 = passOutcome(calc.second, checks),
                               !.pc = "done"]
    /\ UNCHANGED queueVars

OrderNext == FirstPass \/ SecondPass

OrderSpec == OrderInit /\ [][OrderNext]_vars

(***************************************************************************)
(* The batches of runReconChecks over a wordlist of more than one batch.   *)
(* The pass followed is the batched one of unnamed/part_000 (lines 19-73), *)
(* which probes the checks in their listed order; its loop is the one of   *)
(* lib/scanner-client.ts (lines 225-265). The checks have their own paths, *)
(* and the probes of the odd and of the even positions get one answer      *)
(* each.                                                                   *)
(***************************************************************************)
\* Bound: the checks of a wordlist of several batches.
MaxBatched == 21

BatchResponses ==
    { [success |-> FALSE, status |-> 0, data |-> {}],
      [success |-> TRUE, status |-> 404, data |-> {"INDEX OF"}] }

BatchCheck(k) ==
    [path |-> ToString(k), type |-> "file", severity |-> "low",
     description |-> "listed file",
     positive_match |-> {"Index of"}, false_positive_indicators |-> {"Not Found"}]

BatchWordlist(n, odd, even) ==
    [k \in 1..n |-> [check |-> BatchCheck(k),
                     response |-> IF k % 2 = 1 THEN odd ELSE even]]

BatchInit ==
    /\ InitStore
    /\ observed = FALSE
    /\ calc \in { NewPass("unshuffled", BatchWordlist(n, odd, even)) :
                     n \in 0..MaxBatched, odd \in BatchResponses,
                     even \in BatchResponses }

BatchNext ==
    \/ StartBatch
    \/ \E k \in 1..MaxBatched : ProbeAnswered(k)
    \/ EndBatch
    \/ ReconReturn

BatchSpec == BatchInit /\ [][BatchNext]_vars

(***************************************************************************)
(* The popup opens: the store starts empty and _init (unnamed/part_003,    *)
(* lines 47-54, called by the first effect of useScanHistory, lines        *)
(* 259-273) reads the persisted history and ignore list and sets them once *)
(* the reads are answered. addScanToQueue is called by the dashboard, by   *)
(* the ADD_TO_QUEUE listener and by checkPendingScan (App.tsx, lines       *)
(* 17-32), before or after that. calc holds what storage has under         *)
(* 'scan-history' and 'ignored-domains' (null when the key was never       *)
(* written) and whether _init has set it.                                  *)
(***************************************************************************)
\* What browserStorage.get answers: null, or the value stored.
Stored(value) == [isNull |-> FALSE, value |-> value]

StoredHistories ==
    { [isNull |-> TRUE, value |-> <<>>], Stored(<<>>) }
    \cup { Stored(<<[rootDomain |-> r, run |-> 0]>>) : r \in Roots }

StoredIgnoreLists ==
    { [isNull |-> TRUE, value |-> {}] } \cup { Stored(g) : g \in SUBSET Roots }

LoadInit ==
    /\ InitStore
    /\ observed = FALSE
    /\ calc \in { [fn |-> "_init", pc |-> "reading", history |-> h,
                   ignoredDomains |-> g] :
                     h \in StoredHistories, g \in StoredIgnoreLists }

\* The two reads of _init are answered: what is stored is set.
_init ==
    /\ calc.fn = "_init" /\ calc.pc = "reading"
    /\ history' = IF calc.history.isNull THEN history ELSE calc.history.value
    /\ ignoredDomains' = IF calc.ignoredDomains.isNull
                         THEN ignoredDomains ELSE calc.ignoredDomains.value
    /\ calc' = [calc EXCEPT !.pc = "set"]
    /\ UNCHANGED <<scanQueue, isProcessingQueue, currentlyScanningDomain,
                   initialQueueLength, activeScans, aborted, runs, queueTickets,
                   nextTicket, stoppedTickets, currentRun, observed, lastOp>>

LoadNext ==
    \/ _init
    \/ \E domain \in HostInputs : AddScanToQueue(domain)

LoadSpec == LoadInit /\ [][LoadNext]_vars

(***************************************************************************)
(* The scan of a queue entry up to its history item: processQueue passes   *)
(* the entry to performScan, the provider lists names of the entry (its    *)
(* subdomain in two letter cases, and the entry itself), and               *)
(* addScanResults (unnamed/part_003, lines 89-99) keys the results by the  *)
(* root domain of the first of them.                                       *)
(***************************************************************************)
\* Bound: the names of the provider's list.
MaxListed == 2

\* Entries of scanQueue: what getRootDomain makes of a typed host.
ListEntries ==
    { getRootDomain(h) : h \in { <<"x", "a", "com">>, <<"co", "com">>,
                                 <<"192", "1", "1", "1">> } }

ListedNames(entry) == { <<"s">> \o entry, <<"S">> \o entry, entry }

ListHosts ==
    UNION { {entry, getRootDomain(entry), <<"s">> \o entry} : entry \in ListEntries }

\* The answers to the probe of https://{domain}: one for the root domain
\* performScan derives, one for every other host.
ListLive(entry, ofRoot, ofOthers) ==
    [h \in ListHosts |-> IF h = getRootDomain(entry) THEN ofRoot ELSE ofOthers]

\* The host answers with status 200, or the connection fails.
ListAnswers ==
    { a \in LiveAnswers : a.status \in {200, 0} /\ a.error # "Scan cancelled" }

ListInit ==
    /\ InitStore
    /\ observed = FALSE
    /\ calc \in UNION {
          { NewScan(variant, entry, "key", "answered",
                    [kind |-> "json", data |-> [shape |-> "list", domains |-> l]],
                    ListLive(entry, ofRoot, ofOthers), <<>>) :
               variant \in ScanVariants,
               l \in SeqsUpTo(ListedNames(entry), MaxListed),
               ofRoot \in ListAnswers, ofOthers \in ListAnswers } :
          entry \in ListEntries }

\* processQueue after performScan returned results for the entry in flight:
\* addScanResults puts their history item first.
PersistResults ==
    /\ Scan(calc) /\ calc.pc = "done" /\ ~calc.threw
    /\ Len(calc.results) > 0
    /\ history' = addScanResults([k \in 1..Len(calc.results) |->
                                     [domain |-> calc.results[k].domain, run |-> 0]])
    /\ calc' = [calc EXCEPT !.pc = "persisted"]
    /\ UNCHANGED <<scanQueue, isProcessingQueue, currentlyScanningDomain,
                   ignoredDomains, initialQueueLength, activeScans, aborted,
                   runs, queueTickets, nextTicket, stoppedTickets, currentRun,
                   observed, lastOp>>

ListNext == ScanLookup \/ ScanAll \/ PersistResults

ListSpec == ListInit /\ [][ListNext]_vars

(***************************************************************************)
(* Claims                                                                  *)
(***************************************************************************)
\* The runs that are inside performScan, an answer to a probe outstanding.
InFlight == { t \in Tickets : runs[t].pc = "fetching" }

\* The runs whose outstanding probe is a fetch that has not been aborted.
Fetching == { t \in InFlight : runs[t].ctl # 0 /\ runs[t].ctl \notin aborted }

\* C1: at no moment are two performScan pipelines in flight with a probe
\* of each being fetched, also not right after a skip or a stop-all while the
\* cancelled pipeline has not returned.
OnePipelineInFlight == Cardinality(Fetching) <= 1

\* C2: no history entry comes from a run that was the current one when
\* skipCurrentScan or stopAllScans cancelled it before its pipeline returned.
CancelledRunWritesNoHistory ==
    \A i \in 1..Len(history) : ~runs[history[i].run].cancelled

\* C3: when the pipeline of a cancelled run returns or throws while a later
\* run of the same domain is the current one, the step writes no history,
\* leaves the queue as it is and does not end the later run.
LateResultDiscarded ==
    [][\A t \in Tickets :
          (/\ runs[t].cancelled
           /\ runs[t].pc # "done"
           /\ runs'[t].pc = "done"
           /\ currentRun \notin {0, t}
           /\ runs[currentRun].dom = runs[t].dom)
          => /\ history' = history
             /\ scanQueue' = scanQueue
             /\ currentlyScanningDomain' = currentlyScanningDomain
             /\ isProcessingQueue' = isProcessingQueue
             /\ currentRun' = currentRun]_vars

\* C10 (last part): no history entry comes from a run that was under way when
\* stopAllScans was called.
StoppedRunWritesNoHistory ==
    \A i \in 1..Len(history) : ~runs[history[i].run].stopped

\* C4: scanQueue holds no root domain twice; the in-flight domain, which
\* stays in scanQueue while it is scanned, occurs there exactly once; and an
\* addScanToQueue of a root domain that is queued or in flight leaves the
\* length of the queue as it is.
QueueRootsDistinct ==
    /\ [](/\ \A i, j \in 1..Len(scanQueue) :
                scanQueue[i] = scanQueue[j] => i = j
          /\ currentlyScanningDomain # Null =>
                Cardinality({ i \in 1..Len(scanQueue) :
                                scanQueue[i] = currentlyScanningDomain }) = 1)
    /\ [][\A x \in HostInputs :
             (/\ AddScanToQueue(x)
              /\ getRootDomain(x) # Null
              /\ \/ includes(scanQueue, getRootDomain(x))
                 \/ currentlyScanningDomain = getRootDomain(x))
             => Len(scanQueue') = Len(scanQueue)]_vars

\* The in-flight domain is at the head of a queue of two, the root domain of
\* the other input in it already.
QueueRootsDistinctWitness ==
    /\ Len(scanQueue) = 2
    /\ currentlyScanningDomain = scanQueue[1]
    /\ \E x \in HostInputs : x # scanQueue[1] /\ getRootDomain(x) = scanQueue[1]

\* C5: addScanToQueue(x) with r = getRootDomain(x) leaves the whole store as
\* it is when r is empty, in scanQueue, the in-flight domain, in
\* ignoredDomains or the rootDomain of a history item; otherwise it appends r
\* to scanQueue, every earlier entry keeping its place.
AdmissionRejectsOrAppends ==
    [][lastOp'.op = "addScanToQueue" =>
         LET r == getRootDomain(lastOp'.arg) IN
         IF \/ r = Null
            \/ \E i \in 1..Len(scanQueue) : scanQueue[i] = r
            \/ currentlyScanningDomain = r
            \/ r \in ignoredDomains
            \/ \E i \in 1..Len(history) : history[i].rootDomain = r
         THEN UNCHANGED storeVars
         ELSE /\ Len(scanQueue') = Len(scanQueue) + 1
              /\ scanQueue'[Len(scanQueue')] = r
              /\ \A i \in 1..Len(scanQueue) : scanQueue'[i] = scanQueue[i]]_vars

\* An addScanToQueue was just refused for the only reason that its root
\* domain has a history item.
AdmissionRejectsOrAppendsWitness ==
    /\ lastOp.op = "addScanToQueue"
    /\ wasScannedInHistory(getRootDomain(lastOp.arg))
    /\ ~includes(scanQueue, getRootDomain(lastOp.arg))
    /\ currentlyScanningDomain # getRootDomain(lastOp.arg)
    /\ getRootDomain(lastOp.arg) \notin ignoredDomains
    /\ scanQueue # <<>>

\* C6: the queue is first in, first out: when the run of an admission has
\* started, every earlier admission has had its run started too, unless
\* stopAllScans removed it from the queue.
StartedInAdmissionOrder ==
    \A t2 \in Tickets :
        runs[t2].pc # "none" =>
            \A t1 \in 1..(t2 - 1) :
                runs[t1].pc # "none" \/ t1 \in stoppedTickets

\* Two admissions of different domains, none stopped, both started.
StartedInAdmissionOrderWitness ==
    /\ stoppedTickets = {}
    /\ \E t1, t2 \in Tickets :
          /\ t1 < t2
          /\ runs[t1].pc # "none"
          /\ runs[t2].pc # "none"
          /\ runs[t1].dom # runs[t2].dom

\* C9: with a domain d in flight skipCurrentScan sends CANCEL_SCAN for d and
\* nothing else, removes d, the head, from scanQueue, clears
\* currentlyScanningDomain and isProcessingQueue and leaves history and the
\* rest of the queue, in its order, as they are; with no domain in flight it
\* sends nothing and changes nothing.
SkipRemovesHeadOnly ==
    [][lastOp'.op = "skipCurrentScan" =>
         IF currentlyScanningDomain = Null
         THEN /\ lastOp'.sent = <<>>
              /\ UNCHANGED <<storeVars, activeScans, aborted>>
         ELSE /\ lastOp'.sent =
                     <<[type |-> "CANCEL_SCAN", domain |-> currentlyScanningDomain]>>
              /\ scanQueue # <<>>
              /\ Head(scanQueue) = currentlyScanningDomain
              /\ scanQueue' = Tail(scanQueue)
              /\ currentlyScanningDomain' = Null
              /\ isProcessingQueue' = FALSE
              /\ history' = history
              /\ ignoredDomains' = ignoredDomains]_vars

\* A skip just removed the in-flight domain and left another one queued.
SkipRemovesHeadOnlyWitness ==
    /\ lastOp.op = "skipCurrentScan"
    /\ lastOp.arg # Null
    /\ Len(scanQueue) = 1
    /\ scanQueue[1] # lastOp.arg

\* C7: when performScan throws an error that is not a cancellation while its
\* domain is the in-flight one, the failure is reported ('Scan Failed'), the
\* domain, at the head of scanQueue, is removed from it, the store is idle
\* again and history is as before; and a domain that is then at the head of
\* the queue is started, unless stopAllScans removes it first.
FailureAdvancesQueue ==
    /\ [][(lastOp'.op = "scanThrew" /\ currentlyScanningDomain = lastOp'.arg) =>
            /\ lastOp'.toast = "Scan Failed"
            /\ scanQueue # <<>>
            /\ Head(scanQueue) = lastOp'.arg
            /\ scanQueue' = Tail(scanQueue)
            /\ currentlyScanningDomain' = Null
            /\ isProcessingQueue' = FALSE
            /\ history' = history]_vars
    /\ \A d \in Roots :
          (/\ lastOp.op = "scanThrew"
           /\ lastOp.toast = "Scan Failed"
           /\ scanQueue # <<>>
           /\ Head(scanQueue) = d)
          ~> (currentlyScanningDomain = d \/ ~includes(scanQueue, d))

\* A scan just failed with another domain waiting behind it.
FailureAdvancesQueueWitness ==
    /\ lastOp.op = "scanThrew"
    /\ lastOp.toast = "Scan Failed"
    /\ scanQueue # <<>>
    /\ ~isProcessingQueue
    /\ history = <<>>

\* C8: the queue drains: every admission eventually leaves the queue, and a
\* domain at the head of the queue while nothing is processed eventually
\* becomes the in-flight domain, unless stopAllScans removes it first.
QueueDrains ==
    /\ \A t \in Tickets :
          (\E i \in 1..Len(queueTickets) : queueTickets[i] = t)
          ~> ~(\E i \in 1..Len(queueTickets) : queueTickets[i] = t)
    /\ \A d \in Roots :
          (scanQueue # <<>> /\ Head(scanQueue) = d /\ ~isProcessingQueue)
          ~> (currentlyScanningDomain = d \/ ~includes(scanQueue, d))

\* C11: once the scan of a run has been cancelled (CANCEL_SCAN for its domain
\* handled by the background), no probe of that run is fetched any more.
CancelledRunProbesNoMore ==
    \A t \in Tickets : runs[t].cancelled => t \notin Fetching

\* C12: START_SCAN_SESSION for root domain d, when handled, aborts the
\* AbortController registered for d and registers a new one that is not
\* aborted: the fetches that use the old one are aborted, and at any time a
\* fetch that is not aborted uses the controller registered for its domain,
\* the only one of that name that is not aborted.
OneLiveTokenPerDomain ==
    /\ [](\A t \in Fetching :
             activeScans[getRootDomain(runs[t].dom)] = runs[t].ctl)
    /\ [](\A d \in Roots : activeScans[d] \notin aborted)
    /\ [][\A t \in Tickets :
             (runs[t].pc = "none" /\ runs'[t].pc = "start") =>
                LET d == getRootDomain(runs'[t].dom) IN
                /\ activeScans'[d] # 0
                /\ activeScans'[d] # activeScans[d]
                /\ activeScans'[d] \notin aborted'
                /\ \A u \in Tickets :
                      (runs[u].ctl # 0 /\ runs[u].ctl = activeScans[d])
                      => runs'[u].ctl \in aborted']_vars

\* A new session of a domain has just been registered while the fetch of an
\* earlier run of that domain is still under way: that fetch is aborted.
OneLiveTokenPerDomainWitness ==
    \E t, u \in Tickets :
        /\ runs[t].pc = "start"
        /\ currentRun = t
        /\ u # t
        /\ runs[u].dom = runs[t].dom
        /\ runs[u].pc = "fetching"
        /\ runs[u].ctl \in aborted
        /\ activeScans[getRootDomain(runs[t].dom)] # 0

\* C13: after any sequence of addScanResults and deleteHistoryItem the
\* history holds at most one item per rootDomain; addScanResults of results
\* whose root domain is r puts their item first, in place of the item r had,
\* and leaves the items of the other root domains, and their order, as they
\* were.
HistoryKeyedByRoot ==
    /\ [](\A i, j \in 1..Len(history) :
             history[i].rootDomain = history[j].rootDomain => i = j)
    /\ [][(lastOp'.op = "addScanResults" /\ getRootDomain(lastOp'.arg) # Null) =>
            LET r == getRootDomain(lastOp'.arg) IN
            /\ history'[1] = [rootDomain |-> r, run |-> lastOp'.run]
            /\ Tail(history') = SelectSeq(history, LAMBDA h : h.rootDomain # r)]_vars

\* addScanResults has just put its item before the items of two other roots.
HistoryKeyedByRootWitness ==
    /\ lastOp.op = "addScanResults"
    /\ Len(history) = 3
    /\ history[1].rootDomain = getRootDomain(lastOp.arg)
    /\ history[1].run = lastOp.run
    /\ lastOp.arg # history[1].rootDomain

\* What the wordlist format asks of a probe for a finding: it succeeded with
\* status 200, and its body holds, letter case aside, a positive-match keyword
\* and no false-positive keyword.
matches(check, response) ==
    /\ response.success
    /\ response.status = 200
    /\ \E keyword \in check.positive_match :
          toLowerCase(keyword) \in lowerText(response.data)
    /\ \A keyword \in check.false_positive_indicators :
          toLowerCase(keyword) \notin lowerText(response.data)

\* C14: the findings a recon pass returns are those of the checks whose probe
\* succeeded with status 200 and whose body holds a positive-match keyword
\* and no false-positive keyword: a (path, type) is among the findings if and
\* only if a check of that (path, type) has such a probe.
FindingIffMatch ==
    (Pass(calc) /\ calc.pc = "done") =>
        \A k \in 1..Len(calc.checks) :
            (\E j \in 1..Len(calc.findings) :
                <<calc.findings[j].path, calc.findings[j].type>>
                    = findingKey(calc.checks[k].check))
            <=> (\E k2 \in 1..Len(calc.checks) :
                    /\ findingKey(calc.checks[k2].check) = findingKey(calc.checks[k].check)
                    /\ matches(calc.checks[k2].check, calc.checks[k2].response))

\* C15: the status derived from a list of findings is Vulnerable if and only
\* if a finding has severity Critical or High; otherwise Potentially
\* Vulnerable if and only if a finding has severity Medium; otherwise Scanned
\* if and only if there is a finding; otherwise Secure.
StatusBySeverity ==
    (calc.fn = "status" /\ calc.pc = "done") =>
        LET f == calc.findings
            sev == { f[j].severity : j \in 1..Len(f) }
        IN calc.status =
              IF sev \cap {"Critical", "High"} # {} THEN "Vulnerable"
              ELSE IF "Medium" \in sev THEN "Potentially Vulnerable"
              ELSE IF f # <<>> THEN "Scanned"
              ELSE "Secure"

\* The status of findings whose worst severity is High, with a Medium and a
\* Low before it, has been derived.
StatusBySeverityWitness ==
    /\ calc.fn = "status" /\ calc.pc = "done"
    /\ Len(calc.findings) = 3
    /\ calc.findings[1].severity = "Low"
    /\ calc.findings[2].severity = "Medium"
    /\ calc.findings[3].severity = "High"
    /\ calc.status = "Vulnerable"

\* C16: the findings a recon pass returns never hold two entries with the
\* same (path, type), whatever the wordlist and, in the batched variant, the
\* order in which the probes of a batch are answered.
FindingsKeyedOnce ==
    Pass(calc) =>
        \A j1, j2 \in 1..Len(calc.findings) :
            (/\ calc.findings[j1].path = calc.findings[j2].path
             /\ calc.findings[j1].type = calc.findings[j2].type) => j1 = j2

\* A batched pass has returned one finding for two different checks of the
\* same path and type that both matched, and the finding kept is the one of
\* the check listed second.
FindingsKeyedOnceWitness ==
    /\ Pass(calc) /\ calc.pc = "done" /\ calc.variant = "batched"
    /\ Len(calc.checks) = 2
    /\ findingKey(calc.checks[1].check) = findingKey(calc.checks[2].check)
    /\ calc.checks[1].check # calc.checks[2].check
    /\ keywordsFound(calc.checks[1].check, calc.checks[1].response)
    /\ keywordsFound(calc.checks[2].check, calc.checks[2].response)
    /\ Len(calc.findings) = 1
    /\ calc.findings[1] = findingOf(calc.checks[2].check)

\* The answer of the liveness probe of a domain is live: status 200.
Status200(answer) == answer.success /\ answer.status = 200

ScanDone == Scan(calc) /\ calc.pc = "done"

InResults(domain) == \E j \in 1..Len(calc.results) : calc.results[j].domain = domain

\* C17: when performScan is over, a candidate domain is in the results if and
\* only if the probe of https://{domain} was answered with status 200, and
\* performScan has not thrown when some candidate was answered so.
LiveIffStatus200 ==
    ScanDone =>
        /\ \A k \in 1..Len(calc.domains) :
              InResults(calc.domains[k]) <=> Status200(calc.live[calc.domains[k]])
        /\ (\E k \in 1..Len(calc.domains) : Status200(calc.live[calc.domains[k]]))
              => ~calc.threw

\* C18: when no candidate domain has an answer to its liveness probe,
\* performScan returns an empty result sequence and does not throw.
NoLiveDomainIsEmptyResult ==
    (ScanDone /\ \A k \in 1..Len(calc.domains) : ~calc.live[calc.domains[k]].success)
        => (~calc.threw /\ calc.results = <<>>)

\* The lookup of a scan with a key failed: the message was rejected or
\* answered 'Scan cancelled', the provider was not reached, answered with a
\* status that is not 2xx or with a body that is no JSON, or its JSON holds
\* no list of domains.
LookupFailed ==
    /\ Scan(calc) /\ calc.apiKey # ""
    /\ \/ calc.delivery # "answered"
       \/ calc.provider.kind # "json"
       \/ calc.provider.data.shape # "list"

\* C19: after a failed lookup the domains to scan are the root domain and the
\* input domain and no other, the promise of the root domain is settled when
\* performScan is over, and performScan has thrown only if every promise
\* gave null.
LookupFailureScansRoot ==
    (LookupFailed /\ calc.pc # "lookup") =>
        LET rootDomain == getRootDomain(calc.domain)
        IN /\ Range(calc.domains) \subseteq {rootDomain, calc.domain}
           /\ rootDomain \in Range(calc.domains)
           /\ calc.pc = "done" =>
                 /\ \A k \in 1..Len(calc.domains) : calc.settled[k] # Pending
                 /\ calc.threw => \A k \in 1..Len(calc.domains) :
                                     calc.settled[k] = NoResult

\* The provider answered a scan with a body that is no JSON, and performScan
\* has returned the result of the root domain.
LookupFailureScansRootWitness ==
    /\ ScanDone /\ LookupFailed
    /\ calc.delivery = "answered" /\ calc.provider.kind = "invalidJson"
    /\ "FETCH_SUBDOMAINS" \in calc.sent /\ calc.fetches = 1
    /\ ~calc.threw
    /\ Len(calc.results) = 1
    /\ calc.results[1].domain = getRootDomain(calc.domain)

\* C20: a performScan with an empty key sends no FETCH_SUBDOMAINS, no fetch
\* of the provider happens, and its domains to scan are the root domain and
\* the input domain and no other; fetchSubdomains with an empty key answers
\* an empty list of domains without a fetch.
EmptyKeyAsksNoProvider ==
    /\ (Scan(calc) /\ calc.apiKey = "") =>
          /\ "FETCH_SUBDOMAINS" \notin calc.sent
          /\ calc.fetches = 0
          /\ calc.pc # "lookup" =>
                /\ Range(calc.domains) \subseteq {getRootDomain(calc.domain), calc.domain}
                /\ getRootDomain(calc.domain) \in Range(calc.domains)
    /\ (calc.fn = "fetchSubdomains" /\ calc.apiKey = "" /\ calc.pc = "done") =>
          /\ calc.answer.success
          /\ calc.answer.data = [shape |-> "list", domains |-> <<>>]
          /\ calc.fetches = 0

\* A performScan with an empty key is over and has returned the result of
\* the root domain alone.
EmptyKeyAsksNoProviderWitness ==
    /\ ScanDone /\ calc.apiKey = ""
    /\ calc.domain = getRootDomain(calc.domain)
    /\ calc.domains = <<calc.domain>>
    /\ ~calc.threw
    /\ Len(calc.results) = 1 /\ calc.results[1].domain = calc.domain

\* The names of the provider's list among the domains performScan scans.
ProvidedScanned ==
    Range(calc.domains)
        \cap { lowerName(calc.provider.data.domains[k]) :
                  k \in 1..Len(calc.provider.data.domains) }

\* C21: whatever the length of the provider's list, at most 50 of its names
\* are among the domains one performScan scans.
AtMostThresholdProvided ==
    (Scan(calc) /\ calc.pc # "lookup") =>
        Cardinality(ProvidedScanned) <= SUBDOMAIN_THRESHOLD

\* C22: a triggerScan that has sent ADD_TO_QUEUE or changed pendingScan was
\* called with auto-scan enabled and a url whose root domain is not empty,
\* not on the persisted ignore list and without an item in the persisted
\* history.
TriggerOnlyWhenAllowed ==
    (Trigger(calc) /\ calc.last.op = "triggerScan") =>
        LET rootDomain == getRootDomain(calc.last.url)
            allowed == /\ calc.settings = "true"
                       /\ rootDomain # Null
                       /\ rootDomain \notin calc.ignored
                       /\ rootDomain \notin calc.scanned
        IN ~allowed => /\ calc.last.sent = <<>>
                       /\ calc.pendingScan = calc.last.pendingBefore

\* A triggerScan for a subdomain of an allowed root domain has set the
\* pending scan to that root domain, the popup being closed, while another
\* root domain is on the ignore list.
TriggerOnlyWhenAllowedWitness ==
    /\ Trigger(calc) /\ calc.last.op = "triggerScan"
    /\ calc.last.url = <<"x", "a", "com">>
    /\ calc.ignored = { <<"b", "com">> }
    /\ calc.last.sent = << Msg("ADD_TO_QUEUE", <<"a", "com">>) >>
    /\ calc.last.pendingBefore = Null
    /\ calc.pendingScan = <<"a", "com">>

\* C30: once the popup is open and has asked for the pending scan, every
\* domain whose ADD_TO_QUEUE was not delivered while it was closed has been
\* handed to addScanToQueue.
MissedScansHandedOver ==
    (Trigger(calc) /\ calc.popupOpen) => calc.missed \subseteq calc.handed

\* C23: the answer of checkUrl is success with the status of the response
\* when fetch gave a response, whatever its status; failure with the error
\* 'Scan cancelled' and status 0 when the fetch was aborted; failure with
\* another error and status 0 when fetch failed otherwise.
ProbeOutcomeClassified ==
    (calc.fn = "checkUrl" /\ calc.pc = "done") =>
        LET answered == calc.outcome.kind = "response"
            wasAborted == ~answered /\ calc.signalAborted
        IN /\ answered => /\ calc.answer.success
                          /\ calc.answer.status = calc.outcome.status
           /\ wasAborted => /\ ~calc.answer.success
                            /\ calc.answer.error = "Scan cancelled"
                            /\ calc.answer.status = 0
           /\ (~answered /\ ~wasAborted) =>
                  /\ ~calc.answer.success
                  /\ calc.answer.error \notin {"", "Scan cancelled"}
                  /\ calc.answer.status = 0

\* The signal of a fetch was aborted, and checkUrl has answered 'Scan
\* cancelled' with status 0.
ProbeOutcomeClassifiedWitness ==
    /\ calc.fn = "checkUrl" /\ calc.pc = "done"
    /\ calc.signalAborted /\ calc.outcome = AbortError
    /\ calc.answer = [success |-> FALSE, status |-> 0, error |-> "Scan cancelled"]

\* C24: a pass with a failed probe is over only when every check of the
\* wordlist was probed, and its findings hold the key of every check whose
\* probe met the test of the pass.
FailedProbeKeepsPass ==
    (/\ Pass(calc) /\ calc.pc = "done"
     /\ \E k \in 1..Len(calc.checks) : ~calc.checks[k].response.success) =>
        /\ Range(calc.probed) = 1..Len(calc.checks)
        /\ \A k \in 1..Len(calc.checks) :
              found(calc.variant, calc.checks[k].check, calc.checks[k].response) =>
                 \E j \in 1..Len(calc.findings) :
                    <<calc.findings[j].path, calc.findings[j].type>>
                       = findingKey(calc.checks[k].check)

\* A sequential pass is over whose first probe failed and whose second probe
\* gave the one finding returned.
FailedProbeKeepsPassWitness ==
    /\ Pass(calc) /\ calc.pc = "done" /\ calc.variant = "sequential"
    /\ Len(calc.checks) = 2
    /\ ~calc.checks[1].response.success
    /\ calc.checks[2].response.status = 200
    /\ calc.probed = <<1, 2>>
    /\ calc.findings = << findingOf(calc.checks[2].check) >>

RootIdempotent ==
    (calc.fn = "getRootDomain" /\ calc.pc = "again") => calc.again = calc.root

\* C27: a domain performScan scans that is neither the root domain nor the
\* input domain, so one of the provider's, does not start with one of the
\* excluded prefixes in any letter case, and has no upper-case label.
ProvidedNamesFiltered ==
    (Scan(calc) /\ calc.pc # "lookup") =>
        \A k \in 1..Len(calc.domains) :
           LET name == calc.domains[k]
           IN name \notin {getRootDomain(calc.domain), calc.domain} =>
                 /\ name[1] \notin {"www", "webmail", "mail", "cpanel",
                                    "autodiscover", "shop", "blog", "WWW"}
                 /\ \A j \in 1..Len(name) : name[j] \notin {"WWW", "S", "Com"}

\* The provider has answered a scan with the one name WWW.a.com, and the
\* root domain alone is scanned.
ProvidedNamesFilteredWitness ==
    /\ Scan(calc) /\ calc.pc = "done" /\ calc.apiKey # ""
    /\ calc.delivery = "answered" /\ calc.provider.kind = "json"
    /\ calc.provider.data = [shape |-> "list", domains |-> << <<"WWW", "a", "com">> >>]
    /\ calc.domain = <<"a", "com">>
    /\ calc.domains = << <<"a", "com">> >>

\* C28: two passes over one wordlist with the same answers, in whatever
\* order and variant, return the same set of findings and give the same
\* status.
OrderIrrelevant ==
    (calc.fn = "twoPasses" /\ calc.pc = "done") => calc.outcome1 = calc.outcome2


\* The batch of the check at position k.
batchOf(k) == (k - 1) \div batchSize

\* C29: in the batched runReconChecks at most 10 probes are in flight at any
\* time, a probe of a later batch is issued only when every probe of the
\* batches before it has been issued and has returned, no check is probed
\* twice, and when the pass is done each check has been probed.
ProbesBatched ==
    (Pass(calc) /\ calc.variant # "sequential") =>
        /\ Cardinality(calc.pending) <= batchSize
        /\ \A k \in Range(calc.probed), j \in 1..Len(calc.checks) :
              batchOf(j) < batchOf(k) =>
                  j \in Range(calc.probed) /\ j \notin calc.pending
        /\ \A a, b \in 1..Len(calc.probed) :
              calc.probed[a] = calc.probed[b] => a = b
        /\ calc.pc = "done" => Range(calc.probed) = 1..Len(calc.checks)

\* A pass over 21 checks waits for the ten probes of its second batch, the
\* ten of the first batch having returned with their findings.
ProbesBatchedWitness ==
    /\ Pass(calc) /\ calc.variant = "unshuffled"
    /\ Len(calc.checks) = 21
    /\ calc.pc = "await"
    /\ calc.pending = 11..20
    /\ Len(calc.probed) = 20
    /\ Len(calc.findings) = 10


\* The admissions whose entry is in the queue.
Queued(tickets) == { tickets[i] : i \in 1..Len(tickets) }

\* C31: an entry leaves scanQueue only when the pipeline of its own run
\* completes while it is in flight, when skipCurrentScan skips it while it is
\* in flight, or by stopAllScans; the completion of another run, or of a run
\* already skipped, removes no entry.
NoEntryLost ==
    [][\A t \in Queued(queueTickets) \ Queued(queueTickets') :
          \/ /\ lastOp'.op \in {"scanReturned", "scanThrew"}
             /\ lastOp'.run = t
             /\ currentRun = t
          \/ /\ lastOp'.op = "skipCurrentScan"
             /\ currentRun = t
          \/ lastOp'.op = "stopAllScans"]_vars


\* C32: between the operations of the store, isProcessingQueue is true
\* exactly when currentlyScanningDomain is set, and a set
\* currentlyScanningDomain is the head of scanQueue.
ProcessingIffScanningHead ==
    /\ isProcessingQueue <=> currentlyScanningDomain # Null
    /\ currentlyScanningDomain # Null =>
          /\ scanQueue # <<>>
          /\ scanQueue[1] = currentlyScanningDomain

\* processQueue has taken the head of a queue of two entries: the flag is
\* set and the domain in flight is the head, with another entry behind it.
ProcessingIffScanningHeadWitness ==
    /\ isProcessingQueue
    /\ Len(scanQueue) = 2
    /\ currentlyScanningDomain = scanQueue[1]
    /\ currentlyScanningDomain # scanQueue[2]
    /\ currentRun = queueTickets[1]


\* The root domains storage holds as ignored or with a history item.
persistedHandled ==
    calc.ignoredDomains.value
    \cup { calc.history.value[i].rootDomain : i \in 1..Len(calc.history.value) }

\* C33: addScanToQueue never appends a root domain that is in the persisted
\* ignore list or has an item in the persisted history, be it called before
\* or after _init has set the persisted lists.
PersistedNeverQueued ==
    [][Len(scanQueue') > Len(scanQueue) =>
          scanQueue'[Len(scanQueue')] \notin persistedHandled]_vars


\* C34: every run of processQueue that has set isProcessingQueue leaves the
\* store with isProcessingQueue false again in the end, whichever of its
\* steps fails.
ProcessingEnds ==
    \A t \in Tickets :
        (isProcessingQueue /\ currentRun = t) ~>
            ~(isProcessingQueue /\ currentRun = t)


\* C35: when the results of the scan of a queue entry are persisted, their
\* history item is keyed by the entry, so that addScanToQueue of the entry
\* finds it in the history.
HistoryKeyedByEntry ==
    (Scan(calc) /\ calc.pc = "persisted") =>
        /\ Len(history) = 1
        /\ history[1].rootDomain = calc.domain
        /\ wasScannedInHistory(calc.domain)


\* C36: one performScan scans each domain name at most once: no name is
\* twice in the list of the domains it scans, and no two of its results are
\* of one domain, also when the provider lists the root domain or one name
\* in two letter cases.
EachDomainOnce ==
    (Scan(calc) /\ calc.pc \in {"domains", "done", "persisted"}) =>
        /\ \A a, b \in 1..Len(calc.domains) :
              calc.domains[a] = calc.domains[b] => a = b
        /\ \A a, b \in 1..Len(calc.results) :
              calc.results[a].domain = calc.results[b].domain => a = b


\* C37: a domain put in pendingScan is returned by at most one
\* GET_PENDING_SCAN request: the request that returns it leaves pendingScan
\* empty, and a request that finds pendingScan empty returns no domain.
PendingReturnedOnce ==
    Trigger(calc) =>
        /\ calc.returned <= 1
        /\ calc.last.op = "checkPendingScan" =>
              /\ calc.pendingScan = Null
              /\ calc.last.url = calc.last.pendingBefore

\* The popup has opened and was given the pending scan of a.com; its second
\* GET_PENDING_SCAN found pendingScan empty and returned no domain.
PendingReturnedOnceWitness ==
    /\ Trigger(calc) /\ calc.popupOpen
    /\ calc.last.op = "checkPendingScan"
    /\ calc.last.pendingBefore = Null
    /\ calc.last.url = Null
    /\ calc.returned = 1
    /\ calc.handed = { <<"a", "com">> }
    /\ calc.pendingScan = Null


\* The progress position the dashboard computes.
currentScanIndex == initialQueueLength - Len(scanQueue)

\* C38: while a scan is in progress the progress position
\* initialQueueLength - |scanQueue| is within 0..initialQueueLength.
ProgressWithinLength ==
    (isProcessingQueue /\ currentlyScanningDomain # Null) =>
        currentScanIndex \in 0..initialQueueLength


\* The types of the messages with a domain.
MessageTypes == {"CHECK_URL", "START_SCAN_SESSION", "CANCEL_SCAN"}

\* C39: after each message the background has handled, no AbortController
\* stored in activeScans is aborted, and so the guard of handleMessage
\* answers no CHECK_URL and no START_SCAN_SESSION message with 'Scan
\* cancelled'.
NoStoredControllerAborted ==
    /\ \A d \in Roots : activeScans[d] # 0 => activeScans[d] \notin aborted
    /\ \A type \in MessageTypes, domain \in HostInputs :
          handleMessage(BgNow, Msg(type, domain)).reply # "Scan cancelled"

\* The scan of a domain was cancelled while a fetch of it was under way, so
\* that the controller of the fetch is aborted, and a new session of the
\* domain has stored another controller, which is not aborted.
NoStoredControllerAbortedWitness ==
    \E t \in Tickets :
        /\ runs[t].pc = "fetching"
        /\ runs[t].ctl \in aborted
        /\ activeScans[runs[t].dom] \notin {0, runs[t].ctl}
        /\ currentRun \notin {0, t}

====
